---- MODULE Spec2Model ----
(***************************************************************************)
(* The workflow execution engine of chriscow/vapi-go (package workflow):   *)
(* Workflow / WorkflowState, the Say and Gather nodes, the WorkflowStorage *)
(* contract and the WorkflowEngine operations CreateWorkflow,              *)
(* StartWorkflow and ProcessConversationUpdate.                            *)
(*                                                                         *)
(* Conventions.  A Go pointer that may be nil is a sequence of length 0 or *)
(* 1.  A Go string that is free text (a message, a variable's value) is a  *)
(* sequence of string tokens, so that concatenation and JSON quoting are   *)
(* computed and not assumed.  The zero time.Time is 0; a call that reads     *)
(* time.Now() advances the variable clock by one tick and reads the new    *)
(* value (all its readings fall within that tick); a call that returns     *)
(* before it reads the time leaves the clock alone.                        *)
(***************************************************************************)
EXTENDS Integers, Sequences, FiniteSets, TLC

(***************************************************************************)
(* Bounds and the input universe                                           *)
(***************************************************************************)
MaxClock == 3

NodeIds == {"A", "B", "C"}
MissingId == "Z"
NextIds == {""} \cup NodeIds \cup {MissingId}
WorkflowId == "w1"
WorkflowIdInputs == {"", WorkflowId}
StartIdInputs == {"", "A", MissingId}
Users == {"u1"}
CallIds == {"c1"}
Procs == {1, 2}

Triples == [workflowId : {WorkflowId}, userId : Users, callId : CallIds]

(***************************************************************************)
(* Nodes (node.go, say_node.go, gather_node.go)                            *)
(***************************************************************************)
NodeTypeSay == "say"
NodeTypeGather == "gather"

\* The schema of the repository's own Gather test: name and email required,
\* age optional.
ProfileSchema ==
    [type       |-> "object",
     properties |-> [name |-> "string", age |-> "integer", email |-> "string"],
     required   |-> {"name", "email"},
     nullable   |-> {}]

NoSchema == [type |-> "", properties |-> [name |-> "string", age |-> "integer", email |-> "string"],
             required |-> {}, nullable |-> {}]

BaseNode(id, type, next) == [id |-> id, type |-> type, nextNodeId |-> next]

NewSayNode(id, next) ==
    [id |-> id, type |-> NodeTypeSay, nextNodeId |-> next,
     message |-> <<"Hello from " \o id>>, llmPrompt |-> <<>>,
     messageType |-> "exact",
     schema |-> NoSchema, maxAttempts |-> 0]

NewSayNodeWithLLMPrompt(id, next) ==
    [id |-> id, type |-> NodeTypeSay, nextNodeId |-> next,
     message |-> <<>>, llmPrompt |-> <<"Prompt of " \o id>>,
     messageType |-> "generated",
     schema |-> NoSchema, maxAttempts |-> 0]

NewGatherNode(id, next) ==
    [id |-> id, type |-> NodeTypeGather, nextNodeId |-> next,
     message |-> <<>>, llmPrompt |-> <<"Extract for " \o id>>,
     messageType |-> "",
     schema |-> ProfileSchema, maxAttempts |-> 3]

NodesWithId(id) ==
    UNION {{NewSayNode(id, nx), NewSayNodeWithLLMPrompt(id, nx), NewGatherNode(id, nx)} :
              nx \in NextIds}

\* Node maps: every node is stored under its own id.
NodeMapsOver(D) == {f \in [D -> UNION {NodesWithId(i) : i \in D}] : \A i \in D : f[i].id = i}

\* The node maps given to CreateWorkflow: none, every map of one or two
\* nodes (any variant, any successor: absent, itself, another node, a
\* missing id), and the three-node maps that chain A -> B -> C.
NodeMaps ==
    NodeMapsOver({}) \cup NodeMapsOver({"A"}) \cup NodeMapsOver({"A", "B"})
    \cup {f \in NodeMapsOver({"A", "B", "C"}) : f["A"].nextNodeId = "B" /\ f["B"].nextNodeId = "C"}

Workflow(id, nodes, start) ==
    [id |-> id, nodes |-> nodes, startNodeId |-> start, createdAt |-> 0, updatedAt |-> 0]

WorkflowInputs ==
    {Workflow(id, nodes, start) : id \in WorkflowIdInputs, nodes \in NodeMaps, start \in StartIdInputs}

(***************************************************************************)
(* WorkflowState and errors                                                *)
(***************************************************************************)
\* The zero-value state GetWorkflowState hands out for a triple that has
\* none yet (its identifying fields filled in).
ZeroState(key) ==
    [workflowId |-> key.workflowId, userId |-> key.userId, callId |-> key.callId,
     currentNodeId |-> "", completedNodeIds |-> <<>>, variables |-> <<>>,
     lastMessageAt |-> 0, lastUpdatedAt |-> 0, isComplete |-> FALSE]

KeyOf(st) == [workflowId |-> st.workflowId, userId |-> st.userId, callId |-> st.callId]

NoError == [kind |-> "nil", nodeId |-> ""]
\* The error built without the id it is about.
ErrNodeNotFoundBlank(id) == [kind |-> "ErrNodeNotFound", nodeId |-> ""]
ErrNodeNotFound(id) == [kind |-> "ErrNodeNotFound", nodeId |-> id]
ErrWorkflowNotFound == [kind |-> "workflow not found", nodeId |-> ""]
\* A failure of a storage read, wrapped by the engine ("failed to get ...").
ErrStorage == [kind |-> "StorageError", nodeId |-> ""]
\* A failure of a storage write, wrapped by the engine ("failed to save ...").
ErrSave == [kind |-> "StorageError on save", nodeId |-> ""]
ErrValidation(what) == [kind |-> what, nodeId |-> ""]
ErrExecution == [kind |-> "node execution failed", nodeId |-> ""]
ErrInvalidMessageType == [kind |-> "invalid message type", nodeId |-> ""]

(***************************************************************************)
(* state.Variables: a Go map[string]any, here a sequence of <<key, value>> *)
(* pairs with distinct keys (the order is the order of insertion and has   *)
(* no meaning: VarsOf compares maps as sets of pairs).                     *)
(***************************************************************************)
VarKeys(vars) == {vars[i][1] : i \in 1..Len(vars)}
VarsOf(vars) == {vars[i] : i \in 1..Len(vars)}
HasVar(vars, k) == k \in VarKeys(vars)
VarGet(vars, k) == (CHOOSE p \in VarsOf(vars) : p[1] = k)[2]
\* The assignment that keeps the value a key already has.
VarSetIfAbsent(vars, k, v) == IF HasVar(vars, k) THEN vars ELSE Append(vars, <<k, v>>)

VarSet(vars, k, v) ==
    IF HasVar(vars, k)
    THEN [i \in 1..Len(vars) |-> IF vars[i][1] = k THEN <<k, v>> ELSE vars[i]]
    ELSE Append(vars, <<k, v>>)

RECURSIVE VarSetAll(_, _)
VarSetAll(vars, more) ==
    IF more = <<>> THEN vars
    ELSE VarSetAll(VarSet(vars, more[1][1], more[1][2]), Tail(more))

(***************************************************************************)
(* SayNode.Execute (say_node.go)                                           *)
(***************************************************************************)
\* json.Marshal of a string value: the value, escaped, between quotes.
Marshal(value) == <<"\"", "escaped(">> \o value \o <<")", "\"">>

\* The loop "for key, value := range state.Variables": Go visits the keys in
\* an unspecified order, given here by order, a permutation of 1..Len(vars).
RECURSIVE AppendVariables(_, _, _)
AppendVariables(prompt, vars, order) ==
    IF order = <<>> THEN prompt
    ELSE AppendVariables(prompt \o <<"\n", vars[order[1]][1], ": ">> \o Marshal(vars[order[1]][2]),
                         vars, Tail(order))

SayMessage(n, st, order) ==
    IF n.messageType = "exact" THEN n.message
    ELSE IF n.messageType = "generated"
         THEN <<"Generated message based on: ">> \o AppendVariables(n.llmPrompt, st.variables, order)
         ELSE <<>>

\* The tail that sets both the next node and the completion flag.
AdvanceAndComplete(n, st, now) ==
    [st EXCEPT !.completedNodeIds = Append(@, n.id), !.currentNodeId = n.nextNodeId,
               !.isComplete = TRUE, !.lastUpdatedAt = now]

\* The tail that records a node as completed the first time only.
AdvanceOnce(n, st, now) ==
    LET done == IF \E i \in 1..Len(st.completedNodeIds) : st.completedNodeIds[i] = n.id
                THEN st
                ELSE [st EXCEPT !.completedNodeIds = Append(@, n.id)]
        moved == IF n.nextNodeId # ""
                 THEN [done EXCEPT !.currentNodeId = n.nextNodeId]
                 ELSE [done EXCEPT !.isComplete = TRUE]
    IN [moved EXCEPT !.lastUpdatedAt = now]

\* The tail that moves on without recording the node as completed.
AdvanceUnrecorded(n, st, now) ==
    LET moved == IF n.nextNodeId # ""
                 THEN [st EXCEPT !.currentNodeId = n.nextNodeId]
                 ELSE [st EXCEPT !.isComplete = TRUE]
    IN [moved EXCEPT !.lastUpdatedAt = now]

\* The tail every Execute shares: record the node as completed, move to the
\* next node or mark the execution complete, stamp lastUpdatedAt.
Advance(n, st, now) ==
    LET done == [st EXCEPT !.completedNodeIds = Append(@, n.id)]
        moved == IF n.nextNodeId # ""
                 THEN [done EXCEPT !.currentNodeId = n.nextNodeId]
                 ELSE [done EXCEPT !.isComplete = TRUE]
    IN [moved EXCEPT !.lastUpdatedAt = now]

\* The Execute that starts state.Variables afresh with the message.
SayExecuteFresh(n, st, data, now, order) ==
    LET message == SayMessage(n, st, order)
        st1 == [st EXCEPT !.variables = <<<<"lastSayMessage", message>>>>]
    IN [err |-> NoError, state |-> Advance(n, st1, now), data |-> data]

SayExecute(n, st, data, now, order) ==
    LET message == SayMessage(n, st, order)
        st1 == [st EXCEPT !.variables = VarSet(@, "lastSayMessage", message)]
    IN [err |-> NoError, state |-> Advance(n, st1, now), data |-> data]

(***************************************************************************)
(* GatherNode.Execute (gather_node.go)                                     *)
(***************************************************************************)
PropertyOrder == <<"name", "age", "email">>

\* The required properties of the schema that ExtractedData lacks, in the
\* order the properties are visited.
MissingProperties(n, data) ==
    IF n.schema.type = "object"
    THEN SelectSeq(PropertyOrder, LAMBDA p : p \in n.schema.required /\ ~HasVar(data, p))
    ELSE <<>>

\* The placeholder the MVP "extracts" for a property of the given type.
DummyValue(n, p) ==
    CASE n.schema.properties[p] = "string" -> <<"Sample " \o p>>
      [] n.schema.properties[p] = "number" -> <<"42">>
      [] n.schema.properties[p] = "integer" -> <<"42">>
      [] n.schema.properties[p] = "boolean" -> <<"true">>
      [] OTHER -> <<"unknown">>

\* The Execute that waits at the node, successfully, for data it misses.
GatherExecuteWaiting(n, st, data, now, order) ==
    LET missing == MissingProperties(n, data)
    IN IF Len(missing) > 0
       THEN [err |-> NoError, state |-> [st EXCEPT !.lastUpdatedAt = now], data |-> data]
       ELSE [err |-> NoError, state |-> Advance(n, st, now), data |-> data]

GatherExecute(n, st, data, now, order) ==
    LET missing == MissingProperties(n, data)
        data1 == VarSetAll(data, [i \in 1..Len(missing) |-> <<missing[i], DummyValue(n, missing[i])>>])
        st1 == IF Len(missing) > 0
               THEN [st EXCEPT !.variables = VarSetAll(@, data1)]
               ELSE st
    IN [err |-> NoError, state |-> Advance(n, st1, now),
        data |-> IF Len(missing) > 0 THEN data1 ELSE data]

(***************************************************************************)
(* The other copies of the nodes' Execute: the ones that take the          *)
(* conversation's messages (SayNode in part_005, GatherNode in             *)
(* gather_node.go's first half) and GatherNode of package workflows.        *)
(***************************************************************************)
\* SayNode.Execute(ctx, state, messages): it rejects a message type it does
\* not know and otherwise logs the message and advances; it does not store
\* the message.
SayExecuteMessages(n, st, data, now, order) ==
    IF n.messageType \notin {"exact", "generated"}
    THEN [err |-> ErrInvalidMessageType, state |-> st, data |-> data]
    ELSE [err |-> NoError, state |-> Advance(n, st, now), data |-> data]

\* getMissingProperties: required, not nullable, absent from ExtractedData.
getMissingProperties(n, data) ==
    IF n.schema.type = "object"
    THEN SelectSeq(PropertyOrder,
                   LAMBDA p : p \in n.schema.required /\ p \notin n.schema.nullable /\ ~HasVar(data, p))
    ELSE <<>>

\* GatherNode.Execute(ctx, state, messages): with properties missing it copies
\* ExtractedData, as it is, into state.Variables; it extracts nothing.
GatherExecuteMessages(n, st, data, now, order) ==
    LET missing == getMissingProperties(n, data)
        st1 == IF Len(missing) > 0
               THEN [st EXCEPT !.variables = VarSetAll(@, data)]
               ELSE st
    IN [err |-> NoError, state |-> Advance(n, st1, now), data |-> data]

\* The DataType constants of package workflows.
DataTypes == {"string", "number", "boolean", "enum"}

\* node.Variables, the list of GatherVariable of package workflows: one
\* variable per property, Required as the schema has it.
Variables(n) ==
    [i \in 1..Len(PropertyOrder) |->
        [name |-> PropertyOrder[i], description |-> <<"The user's", PropertyOrder[i]>>,
         dataType |-> n.schema.properties[PropertyOrder[i]],
         required |-> PropertyOrder[i] \in n.schema.required]]

\* The variables absent from ExtractedData, required or not.
WorkflowsMissing(n, data) ==
    SelectSeq(Variables(n), LAMBDA v : ~HasVar(data, v.name))

\* The switch on variable.DataType; it has no default case.
WorkflowsDummyValue(v) ==
    CASE v.dataType = "string" -> <<"Sample " \o v.name>>
      [] v.dataType = "number" -> <<"42">>
      [] v.dataType = "boolean" -> <<"true">>
      [] v.dataType = "enum" -> <<"unknown">>

\* GatherNode.Execute of package workflows.
WorkflowsGatherExecute(n, st, data, now, order) ==
    LET missing == SelectSeq(WorkflowsMissing(n, data), LAMBDA v : v.dataType \in DataTypes)
        data1 == VarSetAll(data, [i \in 1..Len(missing) |-> <<missing[i].name, WorkflowsDummyValue(missing[i])>>])
        st1 == IF Len(WorkflowsMissing(n, data)) > 0
               THEN [st EXCEPT !.variables = VarSetAll(@, data1)]
               ELSE st
    IN [err |-> NoError, state |-> Advance(n, st1, now),
        data |-> IF Len(WorkflowsMissing(n, data)) > 0 THEN data1 ELSE data]

\* Node.Execute, dispatched on the node's variant.
Execute(n, st, data, now, order) ==
    IF n.type = NodeTypeSay
    THEN SayExecute(n, st, data, now, order)
    ELSE GatherExecute(n, st, data, now, order)

(***************************************************************************)
(* State                                                                   *)
(***************************************************************************)
VARIABLES
    workflows,      \* storage: workflow id -> <<>> or <<the stored Workflow>>
    states,         \* storage: triple -> <<>> or <<the stored WorkflowState>>
    extractedData,  \* node id -> ExtractedData of that node of the stored workflow
    clock,          \* the time of the latest engine call
    procs,          \* the ProcessConversationUpdate calls in flight
    applied,        \* triple -> the state reached by applying, one after another, the calls that returned for it
    last,           \* the engine call that returned last, and what it did
    run,            \* a node's Execute called on its own: the node, the state and what the call did
    vapi            \* the ProcessVAPIUpdate call that returned last: its turns, what it asked, posted and returned

vars == <<workflows, states, extractedData, clock, procs, applied, last, run, vapi>>

\* The workflow in storage, if any.
Stored == workflows[WorkflowId]

NoKey == [workflowId |-> "", userId |-> "", callId |-> ""]

Idle == [pc |-> "idle", key |-> NoKey, local |-> ZeroState(NoKey), cur |-> "", now |-> 0,
         executed |-> <<>>, unsaved |-> <<>>, saves |-> 0, pre |-> <<>>]

NoCall == [op |-> "none", key |-> NoKey, err |-> NoError, ret |-> <<>>,
           executed |-> <<>>, saves |-> 0, pre |-> <<>>, post |-> <<>>,
           input |-> <<>>, msg |-> <<>>]

\* No node is executed on its own.
NoRun == [op |-> "none"]

\* No conversation update was handled.
NoVapi == [op |-> "none"]

Init ==
    /\ workflows = [w \in {WorkflowId} |-> <<>>]
    /\ states = [k \in Triples |-> <<>>]
    /\ extractedData = [i \in NodeIds |-> <<>>]
    /\ clock = 0
    /\ procs = [p \in Procs |-> Idle]
    /\ applied = [k \in Triples |-> [valid |-> TRUE, state |-> ZeroState(k)]]
    /\ last = NoCall
    /\ run = NoRun
    /\ vapi = NoVapi

(***************************************************************************)
(* WorkflowStorage: the contract the engine consumes                       *)
(***************************************************************************)
\* GetWorkflow: the stored workflow and whether it was found.
GetWorkflow(wfs, id) == IF id \in DOMAIN wfs THEN wfs[id] ELSE <<>>

SaveWorkflow(wfs, w) == [wfs EXCEPT ![w.id] = <<w>>]

\* GetWorkflowState: a copy of the stored state, or a fresh zero-value
\* state (never an error) when the triple has none.
GetWorkflowState(sts, key) == IF sts[key] # <<>> THEN sts[key][1] ELSE ZeroState(key)

SaveWorkflowState(sts, st) == [sts EXCEPT ![KeyOf(st)] = <<st>>]

(***************************************************************************)
(* The transitions of the state machine of one execution, as a call that   *)
(* runs alone and meets no failure makes them (timestamps and variables    *)
(* left aside).  The variable applied follows them.                        *)
(***************************************************************************)
SerialCall(w, st) ==
    IF st.isComplete \/ st.currentNodeId \notin DOMAIN w.nodes THEN st
    ELSE LET cur == w.nodes[st.currentNodeId]
             st1 == Advance(cur, st, 0)
         IN IF /\ ~st1.isComplete
               /\ st1.currentNodeId # cur.id
               /\ st1.currentNodeId \in DOMAIN w.nodes
               /\ w.nodes[st1.currentNodeId].type = NodeTypeSay
            THEN Advance(w.nodes[st1.currentNodeId], st1, 0)
            ELSE st1

SerialStart(w, st) ==
    IF st.currentNodeId = "" THEN [st EXCEPT !.currentNodeId = w.startNodeId] ELSE st

(***************************************************************************)
(* WorkflowEngine (engine.go)                                              *)
(***************************************************************************)
Faults == {"none", "GetWorkflow", "GetWorkflowState", "SaveWorkflowState", "SaveWorkflowState2"}

Perms(n) == {f \in [1..n -> 1..n] : \A i, j \in 1..n : f[i] = f[j] => i = j}
Identity(n) == [i \in 1..n |-> i]

\* The orders in which n.Execute may visit state.Variables; only a generated
\* Say message depends on the order.
Orders(n, st) ==
    IF n.type = NodeTypeSay /\ n.messageType = "generated"
    THEN Perms(Len(st.variables))
    ELSE {Identity(Len(st.variables))}

\* The validation without its last check, that the start node is a node.
ValidateWorkflowUnresolved(w) ==
    IF w.id = "" THEN ErrValidation("workflow ID cannot be empty")
    ELSE IF w.startNodeId = "" THEN ErrValidation("workflow must have a start node")
    ELSE IF Cardinality(DOMAIN w.nodes) = 0 THEN ErrValidation("workflow must have at least one node")
    ELSE NoError

\* CreateWorkflow's validation: the error it returns, NoError if none.
ValidateWorkflow(w) ==
    IF w.id = "" THEN ErrValidation("workflow ID cannot be empty")
    ELSE IF w.startNodeId = "" THEN ErrValidation("workflow must have a start node")
    ELSE IF Cardinality(DOMAIN w.nodes) = 0 THEN ErrValidation("workflow must have at least one node")
    ELSE IF w.startNodeId \notin DOMAIN w.nodes THEN ErrValidation("start node not found in workflow nodes")
    ELSE NoError

\* CreateWorkflow(workflow).  Workflow ids are unique: a caller creates a
\* workflow under an id once.
CreateWorkflow(w, saveFails) ==
    /\ LET now == clock + 1
           err == ValidateWorkflow(w)
           stamped == [w EXCEPT !.createdAt = IF @ = 0 THEN now ELSE @, !.updatedAt = now]
           saved == err = NoError /\ ~saveFails
       IN /\ workflows' = IF saved THEN SaveWorkflow(workflows, stamped) ELSE workflows
          /\ last' = [NoCall EXCEPT !.op = "CreateWorkflow", !.key.workflowId = w.id,
                         !.err = IF err # NoError THEN err
                                 ELSE IF saveFails THEN ErrSave
                                 ELSE NoError,
                         !.saves = IF saved THEN 1 ELSE 0,
                         !.input = <<[id |-> w.id, startNodeId |-> w.startNodeId,
                                      nodeIds |-> DOMAIN w.nodes]>>]
          /\ IF err = NoError THEN clock < MaxClock /\ clock' = clock + 1 ELSE clock' = clock
    /\ UNCHANGED <<states, extractedData, procs, applied, run, vapi>>

\* StartWorkflow that returns the started state without saving it.
StartWorkflowResultUnsaved(wfs, sts, key, fault) ==
    LET found == GetWorkflow(wfs, key.workflowId)
        state == GetWorkflowState(sts, key)
        started == [state EXCEPT !.currentNodeId = found[1].startNodeId]
    IN IF found = <<>> THEN [err |-> ErrWorkflowNotFound, ret |-> <<>>, states |-> sts, saves |-> 0]
       ELSE IF state.currentNodeId = ""
            THEN [err |-> NoError, ret |-> <<started>>, states |-> sts, saves |-> 0]
            ELSE [err |-> NoError, ret |-> <<state>>, states |-> sts, saves |-> 0]

\* StartWorkflow that sets the start node without looking at currentNodeId.
StartWorkflowResultReset(wfs, sts, key, fault) ==
    LET found == GetWorkflow(wfs, key.workflowId)
        state == GetWorkflowState(sts, key)
        started == [state EXCEPT !.currentNodeId = found[1].startNodeId]
    IN IF found = <<>> THEN [err |-> ErrWorkflowNotFound, ret |-> <<>>, states |-> sts, saves |-> 0]
       ELSE [err |-> NoError, ret |-> <<started>>,
             states |-> SaveWorkflowState(sts, started), saves |-> 1]

\* StartWorkflow that creates the execution's state before it looks the
\* workflow up.
StartWorkflowResultEager(wfs, sts, key, fault) ==
    LET found == GetWorkflow(wfs, key.workflowId)
        state == GetWorkflowState(sts, key)
        started == [state EXCEPT !.currentNodeId = found[1].startNodeId]
        fail(e) == [err |-> e, ret |-> <<>>, states |-> sts, saves |-> 0]
    IN IF fault = "GetWorkflow" THEN fail(ErrStorage)
       ELSE IF found = <<>>
            THEN [err |-> ErrWorkflowNotFound, ret |-> <<>>,
                  states |-> SaveWorkflowState(sts, state), saves |-> 1]
       ELSE IF fault = "GetWorkflowState" THEN fail(ErrStorage)
       ELSE IF state.currentNodeId = ""
            THEN IF fault = "SaveWorkflowState"
                 THEN fail(ErrSave)
                 ELSE [err |-> NoError, ret |-> <<started>>,
                       states |-> SaveWorkflowState(sts, started), saves |-> 1]
            ELSE [err |-> NoError, ret |-> <<state>>, states |-> sts, saves |-> 0]

\* What StartWorkflow returns and stores: [err, ret, states, saves].
StartWorkflowResult(wfs, sts, key, fault) ==
    LET found == GetWorkflow(wfs, key.workflowId)
        state == GetWorkflowState(sts, key)
        started == [state EXCEPT !.currentNodeId = found[1].startNodeId]
        fail(e) == [err |-> e, ret |-> <<>>, states |-> sts, saves |-> 0]
    IN IF fault = "GetWorkflow" THEN fail(ErrStorage)
       ELSE IF found = <<>> THEN fail(ErrWorkflowNotFound)
       ELSE IF fault = "GetWorkflowState" THEN fail(ErrStorage)
       ELSE IF state.currentNodeId = ""
            THEN IF fault = "SaveWorkflowState"
                 THEN fail(ErrSave)
                 ELSE [err |-> NoError, ret |-> <<started>>,
                       states |-> SaveWorkflowState(sts, started), saves |-> 1]
            ELSE [err |-> NoError, ret |-> <<state>>, states |-> sts, saves |-> 0]

\* StartWorkflow of package workflows, the engine's other copy: it saves the
\* state whether or not it had to set the current node.
WorkflowsStartWorkflowResult(wfs, sts, key, fault) ==
    LET found == GetWorkflow(wfs, key.workflowId)
        state == GetWorkflowState(sts, key)
        started == IF state.currentNodeId = ""
                   THEN [state EXCEPT !.currentNodeId = found[1].startNodeId]
                   ELSE state
        fail(e) == [err |-> e, ret |-> <<>>, states |-> sts, saves |-> 0]
    IN IF fault = "GetWorkflow" THEN fail(ErrStorage)
       ELSE IF found = <<>> THEN fail(ErrWorkflowNotFound)
       ELSE IF fault = "GetWorkflowState" THEN fail(ErrStorage)
       ELSE IF fault = "SaveWorkflowState" THEN fail(ErrSave)
       ELSE [err |-> NoError, ret |-> <<started>>,
             states |-> SaveWorkflowState(sts, started), saves |-> 1]

StartWorkflow(key, fault) ==
    /\ LET r == StartWorkflowResult(workflows, states, key, fault)
       IN /\ states' = r.states
          /\ last' = [NoCall EXCEPT !.op = "StartWorkflow", !.key = key, !.err = r.err,
                         !.ret = r.ret, !.saves = r.saves, !.pre = states[key],
                         !.post = r.states[key]]
          /\ applied' = IF r.err = NoError THEN [applied EXCEPT ![key].state = SerialStart(Stored[1], @)]
                        ELSE applied
    /\ UNCHANGED <<workflows, extractedData, clock, procs, run, vapi>>

WorkflowsStartWorkflow(key, fault) ==
    /\ LET r == WorkflowsStartWorkflowResult(workflows, states, key, fault)
       IN /\ states' = r.states
          /\ last' = [NoCall EXCEPT !.op = "StartWorkflow", !.key = key, !.err = r.err,
                         !.ret = r.ret, !.saves = r.saves, !.pre = states[key],
                         !.post = r.states[key]]
          /\ applied' = IF r.err = NoError THEN [applied EXCEPT ![key].state = SerialStart(Stored[1], @)]
                        ELSE applied
    /\ UNCHANGED <<workflows, extractedData, clock, procs, run, vapi>>

(***************************************************************************)
(* ProcessConversationUpdate, in the three stretches its two               *)
(* SaveWorkflowState calls cut it into                                     *)
(***************************************************************************)
\* The orders for executing the current node of st, if it has one.
OrdersAt(wfs, st) ==
    LET found == GetWorkflow(wfs, st.workflowId)
    IN IF found # <<>> /\ st.currentNodeId \in DOMAIN found[1].nodes
       THEN Orders(found[1].nodes[st.currentNodeId], st)
       ELSE {<<>>}

\* An engine that does not look at isComplete.
ReturnsEarlyNever(state) == FALSE

\* The early return that also takes an execution never started for finished.
ReturnsEarlyUnstarted(state) == state.isComplete \/ state.currentNodeId = ""

\* The call returns at once when the execution is complete (engine.go 126).
ReturnsEarly(state) == state.isComplete

\* From the call to the first SaveWorkflowState (engine.go 112-146): load the
\* workflow and the state, return early if complete, stamp lastMessageAt,
\* look the current node up and execute it.  done: the call returns here.
PCULoadAndExecute(wfs, sts, data, key, now, fault, order) ==
    LET found == GetWorkflow(wfs, key.workflowId)
        state == GetWorkflowState(sts, key)
        stamped == [state EXCEPT !.lastMessageAt = now]
        currentNode == found[1].nodes[stamped.currentNodeId]
        r == Execute(currentNode, stamped, data[currentNode.id], now, order)
        return(e, st) == [done |-> TRUE, err |-> e, ret |-> st, local |-> state, cur |-> "",
                          data |-> data, executed |-> <<>>, readsTime |-> e.kind = "ErrNodeNotFound"]
    IN IF fault = "GetWorkflow" THEN return(ErrStorage, <<>>)
       ELSE IF found = <<>> THEN return(ErrWorkflowNotFound, <<>>)
       ELSE IF fault = "GetWorkflowState" THEN return(ErrStorage, <<>>)
       ELSE IF ReturnsEarly(state) THEN return(NoError, <<state>>)
       ELSE IF stamped.currentNodeId \notin DOMAIN found[1].nodes
            THEN return(ErrNodeNotFound(stamped.currentNodeId), <<>>)
       ELSE IF r.err # NoError
            THEN [done |-> TRUE, err |-> ErrExecution, ret |-> <<>>, local |-> r.state, cur |-> currentNode.id,
                  data |-> [data EXCEPT ![currentNode.id] = r.data], executed |-> <<>>, readsTime |-> TRUE]
       ELSE [done |-> FALSE, err |-> NoError, ret |-> <<>>, local |-> r.state, cur |-> currentNode.id,
             data |-> [data EXCEPT ![currentNode.id] = r.data], executed |-> <<currentNode.id>>,
             readsTime |-> TRUE]

\* The check without its comparison with the node just executed.
ContinuesToNextAlways(st, cur) == ~st.isComplete

\* Whether the call goes on to look at the next node (engine.go 155).
ContinuesToNext(st, cur) == ~st.isComplete /\ st.currentNodeId # cur

\* The check against the wrong node type.
AutoAdvancesGather(nextNode) == nextNode.type = NodeTypeGather

\* The check left out: every next node is executed.
AutoAdvancesAny(nextNode) == TRUE

\* Whether the next node is executed in the same call (engine.go 164).
AutoAdvances(nextNode) == nextNode.type = NodeTypeSay

\* The orders for the automatic execution of the next node, if there is one.
OrdersNext(w, st, cur) ==
    IF ContinuesToNext(st, cur) /\ st.currentNodeId \in DOMAIN w.nodes
    THEN Orders(w.nodes[st.currentNodeId], st)
    ELSE {<<>>}

\* The look at the next node that fails, as the first lookup does, when the
\* next node is not in the workflow.
PCUContinueStrict(w, local, cur, data, now, order) ==
    LET nextNode == w.nodes[local.currentNodeId]
        r == Execute(nextNode, local, data[nextNode.id], now, order)
        return == [done |-> TRUE, err |-> NoError, local |-> local, data |-> data, executed |-> <<>>]
    IN IF ~ContinuesToNext(local, cur) THEN return
       ELSE IF local.currentNodeId \notin DOMAIN w.nodes
            THEN [return EXCEPT !.err = ErrNodeNotFound(local.currentNodeId)]
       ELSE IF ~AutoAdvances(nextNode) THEN return
       ELSE [done |-> FALSE, err |-> NoError, local |-> r.state,
             data |-> [data EXCEPT ![nextNode.id] = r.data], executed |-> <<nextNode.id>>]

\* After the first SaveWorkflowState succeeded (engine.go 154-172): done: the
\* call returns local; otherwise the next node was executed and local is to
\* be saved a second time.
PCUContinue(w, local, cur, data, now, order) ==
    LET nextNode == w.nodes[local.currentNodeId]
        r == Execute(nextNode, local, data[nextNode.id], now, order)
        return == [done |-> TRUE, err |-> NoError, local |-> local, data |-> data, executed |-> <<>>]
    IN IF ~ContinuesToNext(local, cur) THEN return
       ELSE IF local.currentNodeId \notin DOMAIN w.nodes THEN return
       ELSE IF ~AutoAdvances(nextNode) THEN return
       ELSE IF r.err # NoError
            THEN [done |-> TRUE, err |-> ErrExecution, local |-> r.state,
                  data |-> [data EXCEPT ![nextNode.id] = r.data], executed |-> <<>>]
       ELSE [done |-> FALSE, err |-> NoError, local |-> r.state,
             data |-> [data EXCEPT ![nextNode.id] = r.data], executed |-> <<nextNode.id>>]

\* The call returns: what it did is recorded in last, and applied follows
\* the calls that returned: a successful call is applied to it, a call that
\* failed after it had saved once leaves it without meaning.
Returns(key, err, ret, executed, saves, pre) ==
    /\ last' = [op |-> "ProcessConversationUpdate", key |-> key, err |-> err, ret |-> ret,
                executed |-> executed, saves |-> saves, pre |-> pre, post |-> states'[key],
                input |-> <<>>, msg |-> <<>>]
    /\ applied' = IF err = NoError
                  THEN [applied EXCEPT ![key].state = SerialCall(workflows[key.workflowId][1], @)]
                  ELSE IF saves > 0 THEN [applied EXCEPT ![key].valid = FALSE]
                  ELSE applied

\* ProcessConversationUpdate(workflowID, userID, callID, messages) run from
\* call to return with no other call in between.  Commit(saved, err) is what
\* the caller finds when the call returns err with saved in storage: the
\* engine's caller does nothing more, ProcessVAPIUpdate goes on from there.
ProcessConversationUpdateThen(key, fault, Commit(_, _)) ==
    /\ UNCHANGED <<workflows, procs, run>>
    /\ \E o1 \in OrdersAt(workflows, GetWorkflowState(states, key)) :
       LET now == clock + 1
           pre == states[key]
           b == PCULoadAndExecute(workflows, states, extractedData, key, now, fault, o1)
           saved1 == SaveWorkflowState(states, b.local)
       IN /\ IF b.readsTime THEN clock < MaxClock /\ clock' = clock + 1 ELSE clock' = clock
          /\ \/ /\ b.done
                /\ Commit(states, b.err)
                /\ extractedData' = b.data
                /\ Returns(key, b.err, b.ret, b.executed, 0, pre)
             \/ /\ ~b.done
                /\ fault = "SaveWorkflowState"
                /\ Commit(states, ErrSave)
                /\ extractedData' = b.data
                /\ Returns(key, ErrSave, <<>>, b.executed, 0, pre)
             \/ /\ ~b.done
                /\ fault # "SaveWorkflowState"
                /\ \E o2 \in OrdersNext(workflows[key.workflowId][1], b.local, b.cur) :
                   LET c == PCUContinue(workflows[key.workflowId][1], b.local, b.cur, b.data, now, o2)
                   IN /\ extractedData' = c.data
                      /\ \/ /\ c.done
                            /\ Commit(saved1, c.err)
                            /\ Returns(key, c.err, IF c.err = NoError THEN <<c.local>> ELSE <<>>,
                                       b.executed, 1, pre)
                         \/ /\ ~c.done
                            /\ fault = "SaveWorkflowState2"
                            /\ Commit(saved1, ErrSave)
                            /\ Returns(key, ErrSave, <<>>, b.executed \o c.executed, 1, pre)
                         \/ /\ ~c.done
                            /\ fault # "SaveWorkflowState2"
                            /\ Commit(SaveWorkflowState(saved1, c.local), NoError)
                            /\ Returns(key, NoError, <<c.local>>, b.executed \o c.executed, 2, pre)

ProcessConversationUpdate(key, fault) ==
    ProcessConversationUpdateThen(key, fault, LAMBDA saved, err : states' = saved /\ vapi' = vapi)

(***************************************************************************)
(* GetCurrentNodeMessage (engine.go 187-255)                               *)
(***************************************************************************)
WorkflowComplete == <<"Workflow complete">>
Acknowledgement == <<"Thank you for providing that information.">>
PleaseContinue == <<"Please continue with our conversation.">>

\* The prompt for the given variables, one line each.
RECURSIVE GatherPrompt(_)
GatherPrompt(missing) ==
    IF missing = <<>> THEN <<>>
    ELSE <<"- ", missing[1].name, ": ">> \o missing[1].description \o <<"\n">>
            \o GatherPrompt(Tail(missing))

\* The switch on the current node's type.
NodeMessage(node, state) ==
    IF node.type = NodeTypeSay
    THEN IF node.messageType = "exact" THEN node.message
         ELSE IF node.messageType = "generated"
              THEN <<"Generated message based on: ">> \o node.llmPrompt
              ELSE PleaseContinue
    ELSE LET missing == SelectSeq(Variables(node), LAMBDA v : ~HasVar(state.variables, v.name))
         IN IF Len(missing) > 0
            THEN <<"I need to gather some information from you:\n">> \o GatherPrompt(missing)
            ELSE Acknowledgement

\* GetCurrentNodeMessage that records the request in the state, as
\* ProcessConversationUpdate does, and saves it.
GetCurrentNodeMessageResultStamping(wfs, sts, key, fault, now) ==
    LET found == GetWorkflow(wfs, key.workflowId)
        state == [GetWorkflowState(sts, key) EXCEPT !.lastMessageAt = now]
        fail(e) == [err |-> e, msg |-> <<>>, states |-> sts, saves |-> 0]
    IN IF fault = "GetWorkflow" THEN fail(ErrStorage)
       ELSE IF found = <<>> THEN fail(ErrWorkflowNotFound)
       ELSE IF fault = "GetWorkflowState" THEN fail(ErrStorage)
       ELSE IF state.isComplete
            THEN [err |-> NoError, msg |-> WorkflowComplete, states |-> SaveWorkflowState(sts, state),
                  saves |-> 1]
       ELSE IF state.currentNodeId \notin DOMAIN found[1].nodes
            THEN fail(ErrNodeNotFound(state.currentNodeId))
       ELSE [err |-> NoError, msg |-> NodeMessage(found[1].nodes[state.currentNodeId], state),
             states |-> SaveWorkflowState(sts, state), saves |-> 1]

\* What GetCurrentNodeMessage returns, and the storage after it:
\* [err, msg, states, saves].
GetCurrentNodeMessageResult(wfs, sts, key, fault, now) ==
    LET found == GetWorkflow(wfs, key.workflowId)
        state == GetWorkflowState(sts, key)
        fail(e) == [err |-> e, msg |-> <<>>, states |-> sts, saves |-> 0]
    IN IF fault = "GetWorkflow" THEN fail(ErrStorage)
       ELSE IF found = <<>> THEN fail(ErrWorkflowNotFound)
       ELSE IF fault = "GetWorkflowState" THEN fail(ErrStorage)
       ELSE IF state.isComplete
            THEN [err |-> NoError, msg |-> WorkflowComplete, states |-> sts, saves |-> 0]
       ELSE IF state.currentNodeId \notin DOMAIN found[1].nodes
            THEN fail(ErrNodeNotFound(state.currentNodeId))
       ELSE [err |-> NoError, msg |-> NodeMessage(found[1].nodes[state.currentNodeId], state),
             states |-> sts, saves |-> 0]

GetCurrentNodeMessage(key, fault) ==
    /\ LET r == GetCurrentNodeMessageResult(workflows, states, key, fault, clock + 1)
       IN /\ states' = r.states
          /\ last' = [NoCall EXCEPT !.op = "GetCurrentNodeMessage", !.key = key, !.err = r.err,
                         !.msg = r.msg, !.saves = r.saves, !.pre = states[key],
                         !.post = r.states[key]]
    /\ UNCHANGED <<workflows, extractedData, clock, procs, applied, run, vapi>>

Next ==
    \/ /\ workflows[WorkflowId] = <<>>
       /\ \E w \in WorkflowInputs, saveFails \in BOOLEAN : CreateWorkflow(w, saveFails)
    \/ \E key \in Triples, fault \in Faults \ {"SaveWorkflowState2"} : StartWorkflow(key, fault)
    \/ \E key \in Triples, fault \in Faults \ {"SaveWorkflowState2"} : WorkflowsStartWorkflow(key, fault)
    \/ \E key \in Triples, fault \in Faults : ProcessConversationUpdate(key, fault)
    \/ \E key \in Triples, fault \in {"none", "GetWorkflow", "GetWorkflowState"} :
          GetCurrentNodeMessage(key, fault)

Spec == Init /\ [][Next]_vars

(***************************************************************************)
(* Concurrent calls: the engine takes no lock, so the storage operations   *)
(* of ProcessConversationUpdate calls in flight interleave.  A call p      *)
(* takes one step per stretch of the handler, each ending at a             *)
(* SaveWorkflowState or at the return.                                     *)
(***************************************************************************)
\* The call starts and runs up to its first SaveWorkflowState.
PCUBegin(p, key, fault) ==
    /\ procs[p].pc = "idle"
    /\ UNCHANGED <<workflows, states, run, vapi>>
    /\ \E o1 \in OrdersAt(workflows, GetWorkflowState(states, key)) :
       LET b == PCULoadAndExecute(workflows, states, extractedData, key, clock + 1, fault, o1)
       IN /\ IF b.readsTime THEN clock < MaxClock /\ clock' = clock + 1 ELSE clock' = clock
          /\ extractedData' = b.data
          /\ IF b.done
             THEN /\ procs' = procs
                  /\ Returns(key, b.err, b.ret, b.executed, 0, states[key])
             ELSE /\ procs' = [procs EXCEPT ![p] =
                                  [pc |-> "save1", key |-> key, local |-> b.local, cur |-> b.cur,
                                   now |-> clock + 1, executed |-> b.executed, unsaved |-> b.executed,
                                   saves |-> 0, pre |-> states[key]]]
                  /\ UNCHANGED <<last, applied>>

\* The first SaveWorkflowState and, if it succeeds, the look at the next node.
PCUSave1(p, saveFails) ==
    /\ procs[p].pc = "save1"
    /\ UNCHANGED <<workflows, clock, run, vapi>>
    /\ LET c == procs[p]
       IN IF saveFails
          THEN /\ UNCHANGED <<states, extractedData>>
               /\ procs' = [procs EXCEPT ![p] = Idle]
               /\ Returns(c.key, ErrSave, <<>>, c.executed, 0, c.pre)
          ELSE /\ states' = SaveWorkflowState(states, c.local)
               /\ \E o2 \in OrdersNext(workflows[c.key.workflowId][1], c.local, c.cur) :
                  LET d == PCUContinue(workflows[c.key.workflowId][1], c.local, c.cur,
                                       extractedData, c.now, o2)
                  IN /\ extractedData' = d.data
                     /\ IF d.done
                        THEN /\ procs' = [procs EXCEPT ![p] = Idle]
                             /\ Returns(c.key, d.err, IF d.err = NoError THEN <<d.local>> ELSE <<>>,
                                        c.executed, 1, c.pre)
                        ELSE /\ procs' = [procs EXCEPT ![p] =
                                             [c EXCEPT !.pc = "save2", !.local = d.local,
                                                       !.executed = @ \o d.executed,
                                                       !.unsaved = d.executed, !.saves = 1]]
                             /\ UNCHANGED <<last, applied>>

\* The second SaveWorkflowState, after the automatic execution of a Say node.
PCUSave2(p, saveFails) ==
    /\ procs[p].pc = "save2"
    /\ UNCHANGED <<workflows, clock, extractedData, run, vapi>>
    /\ procs' = [procs EXCEPT ![p] = Idle]
    /\ LET c == procs[p]
       IN IF saveFails
          THEN /\ states' = states
               /\ Returns(c.key, ErrSave, <<>>, c.executed, 1, c.pre)
          ELSE /\ states' = SaveWorkflowState(states, c.local)
               /\ Returns(c.key, NoError, <<c.local>>, c.executed, 2, c.pre)

NextConcurrent ==
    \/ /\ workflows[WorkflowId] = <<>>
       /\ \E w \in WorkflowInputs, saveFails \in BOOLEAN : CreateWorkflow(w, saveFails)
    \/ \E key \in Triples, fault \in Faults \ {"SaveWorkflowState2"} : StartWorkflow(key, fault)
    \/ \E p \in Procs, key \in Triples, fault \in {"none", "GetWorkflow", "GetWorkflowState"} :
          PCUBegin(p, key, fault)
    \/ \E p \in Procs, saveFails \in BOOLEAN : PCUSave1(p, saveFails)
    \/ \E p \in Procs, saveFails \in BOOLEAN : PCUSave2(p, saveFails)

SpecConcurrent == Init /\ [][NextConcurrent]_vars

(***************************************************************************)
(* A node's Execute called on its own, as the repository's node test       *)
(* calls it: a node, a state at that node and the node's ExtractedData are  *)
(* given, and any copy of Execute that fits the node is applied, again and  *)
(* again (a node that is its own successor, a node object used by several   *)
(* executions).                                                            *)
(***************************************************************************)
\* Schemas: the test's; the test's with name nullable; one of the types
\* both packages know; one that is not an object.
NullableSchema == [ProfileSchema EXCEPT !.nullable = {"name"}]
ContactSchema ==
    [type |-> "object", properties |-> [name |-> "string", age |-> "boolean", email |-> "number"],
     required |-> {"name", "email"}, nullable |-> {}]
ScalarSchema == [ProfileSchema EXCEPT !.type = "string"]
RunSchemas == {ProfileSchema, NullableSchema, ContactSchema, ScalarSchema}

RunNextIds == {"", "A", "B"}

\* A SayNode whose MessageType is neither of the two constants.
SayNodeOfType(id, next, messageType) == [NewSayNode(id, next) EXCEPT !.messageType = messageType]

RunSayNodes ==
    UNION {{NewSayNode("A", nx), NewSayNodeWithLLMPrompt("A", nx), SayNodeOfType("A", nx, "spoken")} :
              nx \in RunNextIds}
RunGatherNodes ==
    {[NewGatherNode("A", nx) EXCEPT !.schema = sc] : nx \in RunNextIds, sc \in RunSchemas}

\* state.Variables and ExtractedData as earlier executions may have left them.
RunVariables ==
    {<<>>,
     << <<"name", <<"Ann">> >> >>,
     << <<"lastSayMessage", <<"Hi">> >>, <<"city", <<"Oslo">> >> >>,
     << <<"name", <<"Ann">> >>, <<"email", <<"ann@x">> >> >>,
     << <<"name", <<"Ann">> >>, <<"age", <<"7">> >>, <<"email", <<"ann@x">> >> >>}
RunExtractedData ==
    {<<>>,
     << <<"name", <<"Bob">> >> >>,
     << <<"name", <<"Bob">> >>, <<"email", <<"bob@x">> >> >>,
     << <<"name", <<"Bob">> >>, <<"age", <<"9">> >>, <<"email", <<"bob@x">> >> >>}

RunState(variables) ==
    [ZeroState([workflowId |-> WorkflowId, userId |-> "u1", callId |-> "c1"])
        EXCEPT !.currentNodeId = "A", !.variables = variables]

Given(n, st, data) ==
    [op |-> "given", node |-> n, state |-> st, data |-> data, err |-> NoError,
     pre |-> st, preData |-> data, order |-> <<>>, loaded |-> <<>>]

InitNodes ==
    /\ workflows = [w \in {WorkflowId} |-> <<>>]
    /\ states = [k \in Triples |-> <<>>]
    /\ extractedData = [i \in NodeIds |-> <<>>]
    /\ clock = 0
    /\ procs = [p \in Procs |-> Idle]
    /\ applied = [k \in Triples |-> [valid |-> TRUE, state |-> ZeroState(k)]]
    /\ last = NoCall
    /\ vapi = NoVapi
    /\ run \in {Given(n, RunState(v), <<>>) : n \in RunSayNodes, v \in RunVariables}
             \cup {Given(n, RunState(v), d) : n \in RunGatherNodes, v \in RunVariables,
                                              d \in RunExtractedData}

\* The call n.Execute(ctx, state, ...) returns r.
Executed(op, r, order) ==
    /\ clock < MaxClock
    /\ clock' = clock + 1
    /\ run' = [run EXCEPT !.op = op, !.state = r.state, !.data = r.data, !.err = r.err,
                          !.pre = run.state, !.preData = run.data, !.order = order,
                          !.loaded = <<>>]
    /\ UNCHANGED <<workflows, states, extractedData, procs, applied, last, vapi>>

RunSayExecute ==
    /\ run.op # "none" /\ run.node.type = NodeTypeSay /\ ~run.state.isComplete
    /\ \E order \in Orders(run.node, run.state) :
          Executed("SayExecute", SayExecute(run.node, run.state, run.data, clock + 1, order), order)

RunSayExecuteMessages ==
    /\ run.op # "none" /\ run.node.type = NodeTypeSay /\ ~run.state.isComplete
    /\ Executed("SayExecuteMessages",
                SayExecuteMessages(run.node, run.state, run.data, clock + 1, <<>>), <<>>)

RunGatherExecute ==
    /\ run.op # "none" /\ run.node.type = NodeTypeGather /\ ~run.state.isComplete
    /\ Executed("GatherExecute", GatherExecute(run.node, run.state, run.data, clock + 1, <<>>), <<>>)

RunGatherExecuteMessages ==
    /\ run.op # "none" /\ run.node.type = NodeTypeGather /\ ~run.state.isComplete
    /\ Executed("GatherExecuteMessages",
                GatherExecuteMessages(run.node, run.state, run.data, clock + 1, <<>>), <<>>)

\* The variables of a node of package workflows have its DataTypes.
RunWorkflowsGatherExecute ==
    /\ run.op # "none" /\ run.node.type = NodeTypeGather /\ ~run.state.isComplete
    /\ \A i \in 1..Len(Variables(run.node)) : Variables(run.node)[i].dataType \in DataTypes
    /\ Executed("WorkflowsGatherExecute",
                WorkflowsGatherExecute(run.node, run.state, run.data, clock + 1, <<>>), <<>>)

(***************************************************************************)
(* ToMap and FromMap of the nodes.  A value of the map[string]any is a Go  *)
(* value with its dynamic type, [t, v]: FromMap takes a field only under   *)
(* the type it asserts.  A node object is the node with the fields the     *)
(* constructors leave to the caller, a Gather node's ExtractedData and     *)
(* the two timestamps of BaseNode.                                         *)
(***************************************************************************)
GoValue(t, v) == [t |-> t, v |-> v]

\* data[k].(t), or the field's present value when the assertion fails.
Field(data, k, t, present) ==
    IF k \in DOMAIN data /\ data[k].t = t THEN data[k].v ELSE present

\* json.Marshal of a schema: the fields that are not empty (omitempty).  The
\* raw message is <<>> for JSON null, the marshalling of a nil pointer.
MarshalSchema(schema) ==
    LET keys == {k \in {"type", "properties", "required", "nullable"} :
                    CASE k = "type" -> schema.type # ""
                      [] k = "properties" -> DOMAIN schema.properties # {}
                      [] k = "required" -> schema.required # {}
                      [] k = "nullable" -> schema.nullable # {}}
    IN [k \in keys |-> CASE k = "type" -> schema.type
                         [] k = "properties" -> schema.properties
                         [] k = "required" -> schema.required
                         [] k = "nullable" -> schema.nullable]

\* json.Unmarshal into a zero schema.
UnmarshalSchema(json) ==
    [type       |-> IF "type" \in DOMAIN json THEN json["type"] ELSE "",
     properties |-> IF "properties" \in DOMAIN json THEN json["properties"] ELSE <<>>,
     required   |-> IF "required" \in DOMAIN json THEN json["required"] ELSE {},
     nullable   |-> IF "nullable" \in DOMAIN json THEN json["nullable"] ELSE {}]

\* The SayNode object of a node of the model.
SayObject(n, at) ==
    [id |-> n.id, type |-> n.type, nextNodeId |-> n.nextNodeId, message |-> n.message,
     llmPrompt |-> n.llmPrompt, messageType |-> n.messageType,
     createdAt |-> at, lastUpdatedAt |-> at]

ZeroSayNode ==
    [id |-> "", type |-> "", nextNodeId |-> "", message |-> <<>>, llmPrompt |-> <<>>,
     messageType |-> "", createdAt |-> 0, lastUpdatedAt |-> 0]

SayToMap(n) ==
    [id            |-> GoValue("string", n.id),
     type          |-> GoValue("string", n.type),
     nextNodeId    |-> GoValue("string", n.nextNodeId),
     message       |-> GoValue("string", n.message),
     llmPrompt     |-> GoValue("string", n.llmPrompt),
     messageType   |-> GoValue("string", n.messageType),
     createdAt     |-> GoValue("time.Time", n.createdAt),
     lastUpdatedAt |-> GoValue("time.Time", n.lastUpdatedAt)]

\* n.FromMap(data): [err, node].
SayFromMap(n, data) ==
    [err  |-> NoError,
     node |-> [id            |-> Field(data, "id", "string", n.id),
               type          |-> Field(data, "type", "string", n.type),
               nextNodeId    |-> Field(data, "nextNodeId", "string", n.nextNodeId),
               message       |-> Field(data, "message", "string", n.message),
               llmPrompt     |-> Field(data, "llmPrompt", "string", n.llmPrompt),
               messageType   |-> Field(data, "messageType", "string", n.messageType),
               createdAt     |-> Field(data, "createdAt", "time.Time", n.createdAt),
               lastUpdatedAt |-> Field(data, "lastUpdatedAt", "time.Time", n.lastUpdatedAt)]]

\* The GatherNode object of package workflow: GatherSchema is a pointer.
GatherObject(n, data, fallback, followUp, at) ==
    [id |-> n.id, type |-> n.type, nextNodeId |-> n.nextNodeId, gatherSchema |-> <<n.schema>>,
     maxAttempts |-> n.maxAttempts, llmPrompt |-> n.llmPrompt, fallbackNodeId |-> fallback,
     followUpPrompt |-> followUp, extractedData |-> data, createdAt |-> at, lastUpdatedAt |-> at]

ZeroGatherNode ==
    [id |-> "", type |-> "", nextNodeId |-> "", gatherSchema |-> <<>>, maxAttempts |-> 0,
     llmPrompt |-> <<>>, fallbackNodeId |-> "", followUpPrompt |-> <<>>, extractedData |-> <<>>,
     createdAt |-> 0, lastUpdatedAt |-> 0]

GatherToMap(n) ==
    [id             |-> GoValue("string", n.id),
     type           |-> GoValue("string", n.type),
     nextNodeId     |-> GoValue("string", n.nextNodeId),
     gatherSchema   |-> GoValue("json.RawMessage",
                            IF n.gatherSchema = <<>> THEN <<>> ELSE <<MarshalSchema(n.gatherSchema[1])>>),
     maxAttempts    |-> GoValue("int", n.maxAttempts),
     llmPrompt      |-> GoValue("string", n.llmPrompt),
     fallbackNodeId |-> GoValue("string", n.fallbackNodeId),
     followUpPrompt |-> GoValue("string", n.followUpPrompt),
     extractedData  |-> GoValue("map[string]any", n.extractedData),
     createdAt      |-> GoValue("time.Time", n.createdAt),
     lastUpdatedAt  |-> GoValue("time.Time", n.lastUpdatedAt)]

\* n.FromMap(data) of package workflow: [err, node].  A schema that does not
\* unmarshal is skipped; JSON null unmarshals into the zero schema.
GatherFromMap(n, data) ==
    [err  |-> NoError,
     node |-> [id             |-> Field(data, "id", "string", n.id),
               type           |-> Field(data, "type", "string", n.type),
               nextNodeId     |-> Field(data, "nextNodeId", "string", n.nextNodeId),
               gatherSchema   |->
                   IF "gatherSchema" \in DOMAIN data /\ data["gatherSchema"].t = "json.RawMessage"
                   THEN IF data["gatherSchema"].v = <<>> THEN <<UnmarshalSchema(<<>>)>>
                        ELSE <<UnmarshalSchema(data["gatherSchema"].v[1])>>
                   ELSE n.gatherSchema,
               maxAttempts    |-> Field(data, "maxAttempts", "int", n.maxAttempts),
               llmPrompt      |-> Field(data, "llmPrompt", "string", n.llmPrompt),
               fallbackNodeId |-> Field(data, "fallbackNodeId", "string", n.fallbackNodeId),
               followUpPrompt |-> Field(data, "followUpPrompt", "string", n.followUpPrompt),
               extractedData  |-> Field(data, "extractedData", "map[string]any", n.extractedData),
               createdAt      |-> Field(data, "createdAt", "time.Time", n.createdAt),
               lastUpdatedAt  |-> Field(data, "lastUpdatedAt", "time.Time", n.lastUpdatedAt)]]

\* The GatherNode object of package workflows: it has the list Variables,
\* each with its EnumValues.
WorkflowsGatherObject(n, data, fallback, followUp, at) ==
    [id |-> n.id, type |-> n.type, nextNodeId |-> n.nextNodeId,
     variables |-> [i \in 1..Len(Variables(n)) |->
                       [name |-> Variables(n)[i].name, description |-> Variables(n)[i].description,
                        dataType |-> Variables(n)[i].dataType, required |-> Variables(n)[i].required,
                        enumValues |-> <<>>]],
     maxAttempts |-> n.maxAttempts, llmPrompt |-> n.llmPrompt, fallbackNodeId |-> fallback,
     followUpPrompt |-> followUp, extractedData |-> data, createdAt |-> at, lastUpdatedAt |-> at]

ZeroWorkflowsGatherNode ==
    [id |-> "", type |-> "", nextNodeId |-> "", variables |-> <<>>, maxAttempts |-> 0,
     llmPrompt |-> <<>>, fallbackNodeId |-> "", followUpPrompt |-> <<>>, extractedData |-> <<>>,
     createdAt |-> 0, lastUpdatedAt |-> 0]

WorkflowsGatherToMap(n) ==
    [id             |-> GoValue("string", n.id),
     type           |-> GoValue("string", n.type),
     nextNodeId     |-> GoValue("string", n.nextNodeId),
     variables      |-> GoValue("[]map[string]any",
                            [i \in 1..Len(n.variables) |->
                                [name        |-> GoValue("string", n.variables[i].name),
                                 description |-> GoValue("string", n.variables[i].description),
                                 dataType    |-> GoValue("string", n.variables[i].dataType),
                                 required    |-> GoValue("bool", n.variables[i].required),
                                 enumValues  |-> GoValue("[]string", n.variables[i].enumValues)]]),
     maxAttempts    |-> GoValue("int", n.maxAttempts),
     llmPrompt      |-> GoValue("string", n.llmPrompt),
     fallbackNodeId |-> GoValue("string", n.fallbackNodeId),
     followUpPrompt |-> GoValue("string", n.followUpPrompt),
     extractedData  |-> GoValue("map[string]any", n.extractedData),
     createdAt      |-> GoValue("time.Time", n.createdAt),
     lastUpdatedAt  |-> GoValue("time.Time", n.lastUpdatedAt)]

\* n.FromMap(data) of package workflows: [err, node].
WorkflowsGatherFromMap(n, data) ==
    LET variable(varData) ==
            [name        |-> Field(varData, "name", "string", ""),
             description |-> Field(varData, "description", "string", <<>>),
             dataType    |-> Field(varData, "dataType", "string", ""),
             required    |-> Field(varData, "required", "bool", FALSE),
             enumValues  |-> Field(varData, "enumValues", "[]string", <<>>)]
    IN [err  |-> NoError,
        node |-> [id             |-> Field(data, "id", "string", n.id),
                  type           |-> Field(data, "type", "string", n.type),
                  nextNodeId     |-> Field(data, "nextNodeId", "string", n.nextNodeId),
                  variables      |->
                      IF "variables" \in DOMAIN data /\ data["variables"].t = "[]map[string]any"
                      THEN [i \in 1..Len(data["variables"].v) |-> variable(data["variables"].v[i])]
                      ELSE n.variables,
                  maxAttempts    |-> Field(data, "maxAttempts", "int", n.maxAttempts),
                  llmPrompt      |-> Field(data, "llmPrompt", "string", n.llmPrompt),
                  fallbackNodeId |-> Field(data, "fallbackNodeId", "string", n.fallbackNodeId),
                  followUpPrompt |-> Field(data, "followUpPrompt", "string", n.followUpPrompt),
                  extractedData  |-> Field(data, "extractedData", "map[string]any", n.extractedData),
                  createdAt      |-> Field(data, "createdAt", "time.Time", n.createdAt),
                  lastUpdatedAt  |-> Field(data, "lastUpdatedAt", "time.Time", n.lastUpdatedAt)]]

\* What the caller of NewGatherNode may set afterwards: FallbackNodeID and
\* FollowUpPrompt.
RunOptions == {<<"", <<>>>>, <<"B", <<"Anything", "else?">>>>}

\* The round trip newNode.FromMap(node.ToMap()) into a fresh node, on the
\* node as the executions so far left it.
RoundTrip(op, object, r) ==
    /\ run' = [run EXCEPT !.loaded = <<[op |-> op, object |-> object, err |-> r.err, node |-> r.node]>>]
    /\ UNCHANGED <<workflows, states, extractedData, clock, procs, applied, last, vapi>>

RunSayRoundTrip ==
    /\ run.op # "none" /\ run.node.type = NodeTypeSay
    /\ LET object == SayObject(run.node, 1)
       IN RoundTrip("SayRoundTrip", object, SayFromMap(ZeroSayNode, SayToMap(object)))

\* NewGatherNode takes any schema pointer, nil too; Execute dereferences it,
\* so a node that was executed has a schema.
RunGatherRoundTrip ==
    /\ run.op # "none" /\ run.node.type = NodeTypeGather
    /\ \E o \in RunOptions,
          schema \in {<<run.node.schema>>} \cup (IF run.op = "given" THEN {<<>>} ELSE {}) :
          LET object == [GatherObject(run.node, run.data, o[1], o[2], 1) EXCEPT !.gatherSchema = schema]
          IN RoundTrip("GatherRoundTrip", object, GatherFromMap(ZeroGatherNode, GatherToMap(object)))

RunWorkflowsGatherRoundTrip ==
    /\ run.op # "none" /\ run.node.type = NodeTypeGather
    /\ \E o \in RunOptions :
          LET object == WorkflowsGatherObject(run.node, run.data, o[1], o[2], 1)
          IN RoundTrip("WorkflowsGatherRoundTrip", object,
                       WorkflowsGatherFromMap(ZeroWorkflowsGatherNode, WorkflowsGatherToMap(object)))

NextNodes ==
    \/ RunSayExecute
    \/ RunSayExecuteMessages
    \/ RunGatherExecute
    \/ RunGatherExecuteMessages
    \/ RunWorkflowsGatherExecute

SpecNodes == InitNodes /\ [][NextNodes]_vars

\* The nodes executed and, at any point, written to a map and loaded from it.
NextMaps ==
    \/ RunSayExecute
    \/ RunGatherExecute
    \/ RunWorkflowsGatherExecute
    \/ RunSayRoundTrip
    \/ RunGatherRoundTrip
    \/ RunWorkflowsGatherRoundTrip

SpecMaps == InitNodes /\ [][NextMaps]_vars

(***************************************************************************)
(* ProcessVAPIUpdate: the conversation-update handler in front of the      *)
(* engine, and sendVAPIMessage, its delivery to the call's control URL     *)
(***************************************************************************)
\* The turns of a conversation update; the handler reads the role of the last.
UserTurn == [role |-> "user", message |-> "hi"]
AssistantTurn == [role |-> "assistant", message |-> "hello"]
MessageBatches == {<<>>, <<AssistantTurn, UserTurn>>, <<UserTurn, AssistantTurn>>}

ErrProcess(e) == [kind |-> "failed to process conversation update", nodeId |-> e.nodeId]
ErrSend == [kind |-> "failed to send request", nodeId |-> ""]

\* The control message posted for a message.
ControlMessage(message) ==
    [type |-> "add-message", message |-> [role |-> "system", content |-> message],
     triggerResponseEnabled |-> TRUE]

\* sendVAPIMessage: the request it posts, and its error when the request
\* fails or is not answered with 200 OK.
sendVAPIMessage(message, fails) ==
    [err |-> IF fails THEN ErrSend ELSE NoError, posted |-> <<ControlMessage(message)>>]

\* A handler that looks at the first turn of the batch.
ProcessVAPIUpdateResultFirst(wfs, before, saved, key, pcuErr, messages, msgFault, sendFails, now) ==
    LET m == GetCurrentNodeMessageResult(wfs, saved, key, msgFault, now)
        sent == sendVAPIMessage(m.msg, sendFails)
        return(e, asked, msg, posted, sts) ==
            [err |-> e, asked |-> asked, message |-> msg, posted |-> posted, states |-> sts]
    IN IF pcuErr # NoError THEN return(ErrProcess(pcuErr), FALSE, <<>>, <<>>, saved)
       ELSE IF ~(Len(messages) > 0 /\ messages[1].role = "user")
            THEN return(NoError, FALSE, <<>>, <<>>, saved)
       ELSE IF m.err # NoError THEN return(m.err, TRUE, <<>>, <<>>, m.states)
       ELSE IF m.msg = <<>> THEN return(NoError, TRUE, <<m.msg>>, <<>>, m.states)
       ELSE return(sent.err, TRUE, <<m.msg>>, sent.posted, m.states)

\* A handler that puts the state back when it could not deliver.
ProcessVAPIUpdateResultRollback(wfs, before, saved, key, pcuErr, messages, msgFault, sendFails, now) ==
    LET m == GetCurrentNodeMessageResult(wfs, saved, key, msgFault, now)
        sent == sendVAPIMessage(m.msg, sendFails)
        return(e, asked, msg, posted, sts) ==
            [err |-> e, asked |-> asked, message |-> msg, posted |-> posted, states |-> sts]
    IN IF pcuErr # NoError THEN return(ErrProcess(pcuErr), FALSE, <<>>, <<>>, saved)
       ELSE IF ~(Len(messages) > 0 /\ messages[Len(messages)].role = "user")
            THEN return(NoError, FALSE, <<>>, <<>>, saved)
       ELSE IF m.err # NoError THEN return(m.err, TRUE, <<>>, <<>>, before)
       ELSE IF m.msg = <<>> THEN return(NoError, TRUE, <<m.msg>>, <<>>, m.states)
       ELSE return(sent.err, TRUE, <<m.msg>>, sent.posted,
                   IF sent.err # NoError THEN before ELSE m.states)

\* What ProcessVAPIUpdate does once ProcessConversationUpdate has returned
\* pcuErr and left saved in storage (before: the storage the handler
\* found): [err, asked, message, posted, states], with asked: it called
\* GetCurrentNodeMessage; message: the message that call returned, if any;
\* posted: the control messages it posted; states: the storage it leaves.
ProcessVAPIUpdateResult(wfs, before, saved, key, pcuErr, messages, msgFault, sendFails, now) ==
    LET m == GetCurrentNodeMessageResult(wfs, saved, key, msgFault, now)
        sent == sendVAPIMessage(m.msg, sendFails)
        return(e, asked, msg, posted, sts) ==
            [err |-> e, asked |-> asked, message |-> msg, posted |-> posted, states |-> sts]
    IN IF pcuErr # NoError THEN return(ErrProcess(pcuErr), FALSE, <<>>, <<>>, saved)
       ELSE IF ~(Len(messages) > 0 /\ messages[Len(messages)].role = "user")
            THEN return(NoError, FALSE, <<>>, <<>>, saved)
       ELSE IF m.err # NoError THEN return(m.err, TRUE, <<>>, <<>>, m.states)
       ELSE IF m.msg = <<>> THEN return(NoError, TRUE, <<m.msg>>, <<>>, m.states)
       ELSE return(sent.err, TRUE, <<m.msg>>, sent.posted, m.states)

\* ProcessVAPIUpdate(engine, workflowID, userID, callID, messages, controlURL).
ProcessVAPIUpdate(key, fault, messages, msgFault, sendFails) ==
    ProcessConversationUpdateThen(key, fault,
        LAMBDA saved, err :
            LET r == ProcessVAPIUpdateResult(workflows, states, saved, key, err, messages,
                                             msgFault, sendFails, clock')
            IN /\ states' = r.states
               /\ vapi' = [op |-> "ProcessVAPIUpdate", key |-> key, messages |-> messages,
                           err |-> r.err, asked |-> r.asked, message |-> r.message,
                           posted |-> r.posted])

\* A Say node that has nothing to say: NewSayNode with an empty message.
SilentSayNode(id, next) == [NewSayNode(id, next) EXCEPT !.message = <<>>]

\* The workflows the handler is run on, as CreateWorkflow stored them at
\* time 1: nodes A and B of any variant, the silent one included, started at
\* A; A is the last node or is followed by itself, by B or by a node that is
\* missing, B is the last node.
VAPINodes(id, nexts) ==
    {n \in NodesWithId(id) : n.nextNodeId \in nexts} \cup {SilentSayNode(id, nx) : nx \in nexts}

VAPIWorkflows ==
    {[Workflow(WorkflowId, [i \in {"A", "B"} |-> IF i = "A" THEN a ELSE b], "A")
         EXCEPT !.createdAt = 1, !.updatedAt = 1] :
        a \in VAPINodes("A", {"", "A", "B", MissingId}), b \in VAPINodes("B", {""})}

\* How the handler's second half may fail: the fault GetCurrentNodeMessage
\* meets, and whether sendVAPIMessage fails.
Deliveries == {<<"none", FALSE>>, <<"none", TRUE>>, <<"GetWorkflow", FALSE>>, <<"GetWorkflowState", FALSE>>}

InitVAPI ==
    /\ workflows \in {SaveWorkflow([i \in {WorkflowId} |-> <<>>], w) : w \in VAPIWorkflows}
    /\ states = [k \in Triples |-> <<>>]
    /\ extractedData = [i \in NodeIds |-> <<>>]
    /\ clock = 1
    /\ procs = [p \in Procs |-> Idle]
    /\ applied = [k \in Triples |-> [valid |-> TRUE, state |-> ZeroState(k)]]
    /\ last = NoCall
    /\ run = NoRun
    /\ vapi = NoVapi

NextVAPI ==
    \/ \E key \in Triples : StartWorkflow(key, "none")
    \/ \E key \in Triples, fault \in Faults, messages \in MessageBatches, delivery \in Deliveries :
          ProcessVAPIUpdate(key, fault, messages, delivery[1], delivery[2])

SpecVAPI == InitVAPI /\ [][NextVAPI]_vars

(***************************************************************************)
(* Two executions of one workflow: two users on the same stored workflow,  *)
(* each started and advanced by calls made one after another               *)
(***************************************************************************)
Executions == [workflowId : {WorkflowId}, userId : {"u1", "u2"}, callId : {"c1"}]

InitPair ==
    /\ workflows \in {SaveWorkflow([i \in {WorkflowId} |-> <<>>], w) : w \in VAPIWorkflows}
    /\ states = [k \in Executions |-> <<>>]
    /\ extractedData = [i \in NodeIds |-> <<>>]
    /\ clock = 1
    /\ procs = [p \in Procs |-> Idle]
    /\ applied = [k \in Executions |-> [valid |-> TRUE, state |-> ZeroState(k)]]
    /\ last = NoCall
    /\ run = NoRun
    /\ vapi = NoVapi

NextPair ==
    \/ \E key \in Executions : StartWorkflow(key, "none")
    \/ \E key \in Executions : ProcessConversationUpdate(key, "none")

SpecPair == InitPair /\ [][NextPair]_vars

(***************************************************************************)
(* Properties                                                              *)
(***************************************************************************)
PCU == "ProcessConversationUpdate"

\* The nodes of the workflow in storage.
Nodes == Stored[1].nodes

\* The state a call loaded: the persisted one, or the zero-value state.
LoadedBy(call) == IF call.pre = <<>> THEN ZeroState(call.key) ELSE call.pre[1]

\* C1: the first StartWorkflow for a triple with no persisted state, on a
\* workflow CreateWorkflow accepted, returns and persists a state at the
\* workflow's start node that is not complete; a failed call persists nothing.
C1_StartAtStartNode ==
    (last.op = "StartWorkflow" /\ last.pre = <<>> /\ Stored # <<>>) =>
        IF last.err = NoError
        THEN /\ last.ret # <<>>
             /\ last.ret[1].currentNodeId = Stored[1].startNodeId
             /\ last.ret[1].currentNodeId \in DOMAIN Nodes
             /\ ~last.ret[1].isComplete
             /\ last.ret[1].completedNodeIds = <<>>
             /\ states[last.key] = last.ret
        ELSE states[last.key] = <<>>

C1_Witness ==
    /\ last.op = "StartWorkflow" /\ last.pre = <<>> /\ last.err = NoError
    /\ states[last.key] # <<>>
    /\ states[last.key][1].currentNodeId = "A"

\* C2: StartWorkflow on a triple whose persisted state has a current node
\* leaves the persisted state as it was, in progress or complete, and a
\* successful call returns exactly that state.
C2_StartIdempotent ==
    (last.op = "StartWorkflow" /\ last.pre # <<>>) =>
        /\ last.pre[1].currentNodeId # ""
        /\ states[last.key] = last.pre
        /\ last.err = NoError => last.ret = last.pre

C2_Witness ==
    /\ last.op = "StartWorkflow" /\ last.err = NoError
    /\ last.pre # <<>> /\ last.pre[1].isComplete
    /\ Len(last.pre[1].completedNodeIds) = 2
    /\ states[last.key] = last.pre

C2_WitnessInProgress ==
    /\ last.op = "StartWorkflow" /\ last.err = NoError
    /\ last.pre # <<>> /\ ~last.pre[1].isComplete
    /\ Len(last.pre[1].completedNodeIds) > 0

\* C3: ProcessConversationUpdate on a triple whose persisted state is
\* complete executes no node, saves nothing and leaves the persisted state,
\* lastMessageAt included, as it was; it returns that state and no error
\* (the one error it can return is a failed read of the storage).
C3_TerminalIdempotence ==
    (last.op = PCU /\ last.pre # <<>> /\ last.pre[1].isComplete) =>
        /\ last.executed = <<>>
        /\ last.saves = 0
        /\ states[last.key] = last.pre
        /\ \/ last.err = NoError /\ last.ret = last.pre
           \/ last.err = ErrStorage /\ last.ret = <<>>

C3_Witness ==
    /\ last.op = PCU /\ last.err = NoError
    /\ last.pre # <<>> /\ last.pre[1].isComplete
    /\ last.pre[1].lastMessageAt > 0
    /\ last.ret = last.pre

\* The workflow A(Gather, next = B) -> B(Say, next empty).
IsChainAB ==
    /\ Stored # <<>>
    /\ DOMAIN Nodes = {"A", "B"}
    /\ Nodes["A"].type = NodeTypeGather /\ Nodes["A"].nextNodeId = "B"
    /\ Nodes["B"].type = NodeTypeSay /\ Nodes["B"].nextNodeId = ""

\* C4: on the chain A(Gather) -> B(Say), a successful
\* ProcessConversationUpdate of an execution started at A executes A, then
\* B, and returns and persists a complete state with completedNodeIds [A, B].
C4_Chain ==
    (/\ last.op = PCU /\ last.err = NoError /\ IsChainAB
     /\ last.pre # <<>> /\ last.pre[1].currentNodeId = "A"
     /\ last.pre[1].completedNodeIds = <<>>) =>
        /\ last.executed = <<"A", "B">>
        /\ last.ret # <<>>
        /\ last.ret[1].isComplete
        /\ last.ret[1].completedNodeIds = <<"A", "B">>
        /\ states[last.key] = last.ret

C4_Witness ==
    /\ last.op = PCU /\ last.err = NoError /\ IsChainAB
    /\ last.pre # <<>> /\ last.pre[1].completedNodeIds = <<>>
    /\ states[last.key] # <<>>
    /\ states[last.key][1].isComplete
    /\ states[last.key][1].completedNodeIds = <<"A", "B">>

\* The fields of a state that the transitions of the state machine decide.
Position(st) ==
    [currentNodeId |-> st.currentNodeId, completedNodeIds |-> st.completedNodeIds,
     isComplete |-> st.isComplete]

Quiescent == \A p \in Procs : procs[p].pc = "idle"

\* C5: no lost update.  Whenever no call is in flight, the persisted state
\* of a triple is the one reached by applying the calls that returned for it
\* one after another: the same completedNodeIds, currentNodeId, isComplete.
C5_NoLostUpdate ==
    \A k \in Triples :
        (Quiescent /\ applied[k].valid /\ states[k] # <<>>) =>
            Position(states[k][1]) = Position(applied[k].state)

\* C6: ProcessConversationUpdate on a state that is not complete and whose
\* currentNodeId is not a node of the workflow returns ErrNodeNotFound with
\* exactly that id, executes no node, saves nothing and leaves the persisted
\* state as it was (a failed read of the storage is the one other outcome).
C6_UnknownNodeFault ==
    (/\ last.op = PCU /\ Stored # <<>>
     /\ ~LoadedBy(last).isComplete
     /\ LoadedBy(last).currentNodeId \notin DOMAIN Nodes) =>
        /\ last.executed = <<>>
        /\ last.saves = 0
        /\ states[last.key] = last.pre
        /\ last.ret = <<>>
        /\ \/ /\ last.err.kind = "ErrNodeNotFound"
              /\ last.err.nodeId = LoadedBy(last).currentNodeId
           \/ last.err = ErrStorage

C6_Witness ==
    /\ last.op = PCU /\ Stored # <<>>
    /\ last.pre # <<>> /\ ~last.pre[1].isComplete
    /\ last.pre[1].currentNodeId = MissingId
    /\ last.err.kind = "ErrNodeNotFound" /\ last.err.nodeId = MissingId
    /\ states[last.key] = last.pre

\* C7: failure atomicity.  Whenever ProcessConversationUpdate returns an
\* error, the persisted state of the triple is the one from before the call.
C7_FailureAtomicity ==
    (last.op = PCU /\ last.err # NoError) => states[last.key] = last.pre

LastExecuted(call) == Nodes[call.executed[Len(call.executed)]]

FirstExecuted(call) == Nodes[call.executed[1]]
HasSuccessor(n) == n.nextNodeId # "" /\ n.nextNodeId # n.id /\ n.nextNodeId \in DOMAIN Nodes

\* C9: when a call has executed the current node n, has saved, and n names
\* another node of the workflow as next, the call executes next as well
\* exactly if next is a Say node; a Gather successor is not executed and the
\* call returns with currentNodeId = next.  No call executes a Gather node
\* other than as its first node.
C9_AutoAdvanceOnlySay ==
    /\ (/\ last.op = PCU /\ last.executed # <<>> /\ last.saves > 0
        /\ HasSuccessor(FirstExecuted(last))) =>
           LET n == FirstExecuted(last)
           IN IF Nodes[n.nextNodeId].type = NodeTypeSay
              THEN last.executed = <<n.id, n.nextNodeId>>
              ELSE /\ last.executed = <<n.id>>
                   /\ last.err = NoError
                   /\ last.ret[1].currentNodeId = n.nextNodeId
                   /\ ~last.ret[1].isComplete
    /\ last.op = PCU =>
           \A i \in 2..Len(last.executed) : Nodes[last.executed[i]].type = NodeTypeSay

C9_Witness ==
    /\ last.op = PCU /\ last.err = NoError
    /\ last.executed = <<"A">>
    /\ Nodes["A"].nextNodeId = "B" /\ "B" \in DOMAIN Nodes
    /\ Nodes["B"].type = NodeTypeGather
    /\ states[last.key][1].currentNodeId = "B"

C9_WitnessSay ==
    /\ last.op = PCU /\ last.err = NoError
    /\ last.executed = <<"A", "B">>
    /\ Nodes["A"].type = NodeTypeSay /\ Nodes["B"].type = NodeTypeSay

\* The chain X -> S1(Say) -> S2(Say), here A -> B -> C.
IsChainOfSays ==
    /\ Stored # <<>>
    /\ DOMAIN Nodes = {"A", "B", "C"}
    /\ Nodes["B"].type = NodeTypeSay
    /\ Nodes["C"].type = NodeTypeSay

\* C10: a call executes at most two nodes; a successful call on a state
\* that is not complete makes completedNodeIds longer by one or by two, the
\* nodes it executed; on X -> S1 -> S2 it executes X and S1 and returns at S2;
\* a node that names itself as next is executed once.
C10_AtMostOneExtraHop ==
    last.op = PCU =>
        /\ Len(last.executed) <= 2
        /\ (last.err = NoError /\ ~LoadedBy(last).isComplete) =>
              /\ Len(last.executed) \in {1, 2}
              /\ last.ret[1].completedNodeIds = LoadedBy(last).completedNodeIds \o last.executed
              /\ states[last.key] = last.ret
        /\ (last.err = NoError /\ IsChainOfSays /\ LoadedBy(last).currentNodeId = "A") =>
              /\ last.executed = <<"A", "B">>
              /\ last.ret[1].currentNodeId = "C"
              /\ ~last.ret[1].isComplete
        /\ (last.executed # <<>> /\ FirstExecuted(last).nextNodeId = FirstExecuted(last).id) =>
              Len(last.executed) = 1

C10_Witness ==
    /\ last.op = PCU /\ last.err = NoError /\ IsChainOfSays
    /\ last.executed = <<"A", "B">>
    /\ states[last.key][1].currentNodeId = "C"
    /\ states[last.key][1].completedNodeIds = <<"A", "B">>

C10_WitnessSelfLoop ==
    /\ last.op = PCU /\ last.err = NoError
    /\ last.executed = <<"A">>
    /\ Nodes["A"].type = NodeTypeSay /\ Nodes["A"].nextNodeId = "A"
    /\ states[last.key][1].completedNodeIds = <<"A", "A">>

\* C12: CreateWorkflow returns an error of its own, and stores nothing, for
\* a workflow with an empty id, an empty startNodeId, no nodes or a
\* startNodeId that is not among its nodes (a failing SaveWorkflow is not
\* what fails: it is not called); so a workflow in storage has nodes and a
\* startNodeId that is one of them.
C12_CreateValidates ==
    /\ (/\ last.op = "CreateWorkflow"
        /\ \/ last.input[1].id = ""
           \/ last.input[1].startNodeId = ""
           \/ last.input[1].nodeIds = {}
           \/ last.input[1].startNodeId \notin last.input[1].nodeIds) =>
           /\ last.err # NoError
           /\ last.err # ErrSave
           /\ last.saves = 0
           /\ Stored = <<>>
    /\ Stored # <<>> =>
           /\ Stored[1].id # ""
           /\ DOMAIN Stored[1].nodes # {}
           /\ Stored[1].startNodeId \in DOMAIN Stored[1].nodes

C12_Witness ==
    /\ last.op = "CreateWorkflow"
    /\ last.input[1].id = WorkflowId
    /\ last.input[1].nodeIds = {"A", "B"}
    /\ last.input[1].startNodeId = MissingId
    /\ last.err = ErrValidation("start node not found in workflow nodes")
    /\ Stored = <<>>

\* The fields a Gather node's schema requires.
Required(n) == IF n.schema.type = "object" THEN n.schema.required ELSE {}

GCNM == "GetCurrentNodeMessage"

\* C19: GetCurrentNodeMessage is a read-only projection.  A step that is a
\* GetCurrentNodeMessage call leaves the stored workflow, the stored states
\* and the nodes' data as they were and saves nothing, whatever it returns;
\* on a complete state it returns exactly "Workflow complete", and on a
\* state that is not complete and whose currentNodeId is not a node of the
\* workflow it returns ErrNodeNotFound with that id (a failed read of the
\* storage apart).
C19_GetCurrentNodeMessageReadOnly ==
    [][last'.op = GCNM =>
          /\ workflows' = workflows
          /\ states' = states
          /\ extractedData' = extractedData
          /\ last'.saves = 0
          /\ (Stored # <<>> /\ last'.err # ErrStorage) =>
                LET st == GetWorkflowState(states, last'.key)
                IN /\ st.isComplete => last'.err = NoError /\ last'.msg = <<"Workflow complete">>
                   /\ (~st.isComplete /\ st.currentNodeId \notin DOMAIN Nodes) =>
                          /\ last'.err.kind = "ErrNodeNotFound"
                          /\ last'.err.nodeId = st.currentNodeId
                          /\ last'.msg = <<>>]_vars

C19_Witness ==
    /\ last.op = GCNM /\ last.err = NoError
    /\ last.pre # <<>> /\ last.pre[1].isComplete
    /\ last.msg = <<"Workflow complete">>
    /\ states[last.key] = last.pre

C19_WitnessNodeNotFound ==
    /\ last.op = GCNM
    /\ last.pre # <<>> /\ ~last.pre[1].isComplete /\ last.pre[1].currentNodeId = MissingId
    /\ last.err.kind = "ErrNodeNotFound" /\ last.err.nodeId = MissingId

\* The variables of a Gather node that are required and that the collected
\* variables lack.
StillMissing(node, variables) ==
    SelectSeq(Variables(node), LAMBDA v : v.name \in Required(node) /\ ~HasVar(variables, v.name))

\* C20: at a Gather node GetCurrentNodeMessage returns the acknowledgement
\* exactly when the collected variables lack no required field of the node,
\* and otherwise the prompt that lists exactly the required fields they lack.
C20_GatherMessage ==
    (/\ last.op = GCNM /\ last.err = NoError /\ Stored # <<>>
     /\ ~LoadedBy(last).isComplete
     /\ LoadedBy(last).currentNodeId \in DOMAIN Nodes
     /\ Nodes[LoadedBy(last).currentNodeId].type = NodeTypeGather) =>
        LET missing == StillMissing(Nodes[LoadedBy(last).currentNodeId], LoadedBy(last).variables)
        IN last.msg = IF missing = <<>> THEN Acknowledgement
                      ELSE <<"I need to gather some information from you:\n">> \o GatherPrompt(missing)

(***************************************************************************)
(* Properties of a node's Execute                                          *)
(***************************************************************************)
SayOps == {"SayExecute", "SayExecuteMessages"}
GatherOps == {"GatherExecute", "GatherExecuteMessages", "WorkflowsGatherExecute"}

\* C11: every Execute that returns no error appends the node's id to the end
\* of completedNodeIds and then either moves currentNodeId to a non-empty
\* nextNodeId, isComplete as it was, or, nextNodeId being empty, sets
\* isComplete and leaves currentNodeId as it was.
C11_ExecuteAdvances ==
    (run.op \in SayOps \cup GatherOps /\ run.err = NoError) =>
        /\ run.state.completedNodeIds = Append(run.pre.completedNodeIds, run.node.id)
        /\ IF run.node.nextNodeId # ""
           THEN /\ run.state.currentNodeId = run.node.nextNodeId
                /\ run.state.isComplete = run.pre.isComplete
           ELSE /\ run.state.isComplete
                /\ run.state.currentNodeId = run.pre.currentNodeId

C11_Witness ==
    /\ run.op \in GatherOps /\ run.err = NoError
    /\ run.node.nextNodeId = "B"
    /\ run.state.currentNodeId = "B" /\ ~run.state.isComplete
    /\ run.state.completedNodeIds = <<"A">>

C11_WitnessComplete ==
    /\ run.op \in SayOps /\ run.err = NoError
    /\ run.node.nextNodeId = ""
    /\ run.state.currentNodeId = "A" /\ run.state.isComplete
    /\ run.state.completedNodeIds = <<"A">>

\* C13: missing-field detection.  A Gather node that has extracted nothing
\* yet, with required fields R, executed on a state whose variables hold no
\* field of the schema, returns no error and leaves every field of R in
\* state.variables, and completedNodeIds = [the node's id].
C13_MissingFieldDetection ==
    (/\ run.op \in {"GatherExecute", "GatherExecuteMessages"}
     /\ Required(run.node) # {}
     /\ run.preData = <<>>
     /\ VarKeys(run.pre.variables) \cap DOMAIN run.node.schema.properties = {}
     /\ run.pre.completedNodeIds = <<>>) =>
        /\ run.err = NoError
        /\ Required(run.node) \subseteq VarKeys(run.state.variables)
        /\ run.state.completedNodeIds = <<run.node.id>>

\* The schema fields a Gather execution may count as missing: required, not
\* nullable, absent from the node's extractedData.
MayBeMissing(n, data) ==
    {p \in Required(n) : p \notin n.schema.nullable /\ ~HasVar(data, p)}

\* C14: a Gather execution extracts, or treats as missing, only required,
\* not nullable fields that extractedData lacks: extractedData gains no
\* other key, and state.variables changes only if there is such a field.
C14_OnlyRequiredMissing ==
    run.op \in {"GatherExecute", "GatherExecuteMessages", "WorkflowsGatherExecute"} =>
        /\ VarKeys(run.data) \ VarKeys(run.preData) \subseteq MayBeMissing(run.node, run.preData)
        /\ MayBeMissing(run.node, run.preData) = {} =>
              /\ run.data = run.preData
              /\ run.state.variables = run.pre.variables

\* C15: Gather pass-through.  Executed with no required field missing from
\* its extractedData, a Gather node extracts nothing and leaves every key of
\* state.variables as it was (and completes and advances as C11 says).
C15_GatherPassThrough ==
    (/\ run.op \in {"GatherExecute", "GatherExecuteMessages", "WorkflowsGatherExecute"}
     /\ Required(run.node) \subseteq VarKeys(run.preData)) =>
        /\ run.err = NoError
        /\ run.data = run.preData
        /\ run.state.variables = run.pre.variables
        /\ run.state.completedNodeIds = Append(run.pre.completedNodeIds, run.node.id)

\* C16: when a Gather execution extracts fields, every key of extractedData
\* is afterwards in state.variables with the value extractedData has for it,
\* whatever state.variables held for it before, and the keys of
\* state.variables that extractedData does not have are as they were.
C16_ExtractedDataMerged ==
    (/\ run.op \in {"GatherExecute", "GatherExecuteMessages", "WorkflowsGatherExecute"}
     /\ run.data # run.preData) =>
        /\ VarKeys(run.preData) \subseteq VarKeys(run.data)
        /\ VarKeys(run.state.variables) = VarKeys(run.pre.variables) \cup VarKeys(run.data)
        /\ \A k \in VarKeys(run.data) :
              VarGet(run.state.variables, k) = VarGet(run.data, k)
        /\ \A k \in VarKeys(run.pre.variables) \ VarKeys(run.data) :
              VarGet(run.state.variables, k) = VarGet(run.pre.variables, k)

C16_Witness ==
    /\ run.op = "GatherExecute"
    /\ run.preData = << <<"name", <<"Bob">> >> >>
    /\ VarsOf(run.pre.variables) = {<<"name", <<"Ann">> >>, <<"email", <<"ann@x">> >>}
    /\ VarsOf(run.data) = {<<"name", <<"Bob">> >>, <<"email", <<"Sample email">> >>}
    /\ VarsOf(run.state.variables) = VarsOf(run.data)

C16_WitnessOtherKeys ==
    /\ run.op = "WorkflowsGatherExecute"
    /\ VarsOf(run.pre.variables) = {<<"lastSayMessage", <<"Hi">> >>, <<"city", <<"Oslo">> >>}
    /\ run.preData = <<>>
    /\ VarKeys(run.data) = {"name", "age", "email"}
    /\ VarsOf(run.state.variables) = VarsOf(run.pre.variables) \cup VarsOf(run.data)

\* C17: a Say execution that returns no error leaves its message in
\* state.variables["lastSayMessage"]: the node's message if the node is
\* exact, the message generated from its prompt if it is generated.
C17_LastSayMessage ==
    (/\ run.op \in SayOps /\ run.err = NoError
     /\ run.node.messageType \in {"exact", "generated"}) =>
        /\ HasVar(run.state.variables, "lastSayMessage")
        /\ VarGet(run.state.variables, "lastSayMessage") =
              IF run.node.messageType = "exact"
              THEN run.node.message
              ELSE <<"Generated message based on: ">>
                      \o AppendVariables(run.node.llmPrompt, run.pre.variables, run.order)

\* C18: Say.Execute on a node whose messageType is neither exact nor
\* generated returns an error and leaves the state as it was; on an exact or
\* generated node it returns no error.
C18_SayRejectsUnknownType ==
    run.op \in SayOps =>
        IF run.node.messageType \in {"exact", "generated"}
        THEN run.err = NoError
        ELSE run.err # NoError /\ run.state = run.pre

(***************************************************************************)
(* C22: calls for a workflow that is not in storage                        *)
(***************************************************************************)
StateOps == {"StartWorkflow", "ProcessConversationUpdate", "GetCurrentNodeMessage"}

\* C22: StartWorkflow, ProcessConversationUpdate and GetCurrentNodeMessage
\* called with a workflow id that is not in storage return a not-found error
\* (unless the read of the workflow itself failed), return no state and no
\* message, and save no WorkflowState: the storage holds no state for any
\* execution as long as the workflow is not stored.
C22_UnknownWorkflow ==
    Stored = <<>> =>
        /\ \A k \in Triples : states[k] = <<>>
        /\ last.op \in StateOps =>
              /\ last.err.kind \in {"workflow not found", "StorageError"}
              /\ last.ret = <<>> /\ last.msg = <<>>
              /\ last.executed = <<>> /\ last.saves = 0
              /\ last.pre = <<>> /\ last.post = <<>>

\* Each of the three calls met a workflow that is not stored.
C22_Witness ==
    Stored = <<>> /\ last.op = "StartWorkflow" /\ last.err.kind = "workflow not found"

C22_WitnessPCU ==
    Stored = <<>> /\ last.op = "ProcessConversationUpdate" /\ last.err.kind = "workflow not found"

C22_WitnessMessage ==
    Stored = <<>> /\ last.op = "GetCurrentNodeMessage" /\ last.err.kind = "workflow not found"

(***************************************************************************)
(* C23: the workflow definition after creation                             *)
(***************************************************************************)
\* C23: the workflow definition is immutable after creation: no
\* StartWorkflow, ProcessConversationUpdate or GetCurrentNodeMessage call
\* changes a field of the stored Workflow or of one of its nodes, a Gather
\* node's extractedData included; only the WorkflowState changes.
C23_WorkflowImmutable ==
    [][last'.op \in StateOps => workflows' = workflows /\ extractedData' = extractedData]_vars

(***************************************************************************)
(* C24, C25: what a call leaves of the persisted state it found            *)
(***************************************************************************)
Advancing == {"StartWorkflow", "ProcessConversationUpdate"}

\* C24: across StartWorkflow and ProcessConversationUpdate calls for one
\* execution the key set of the persisted state.variables never shrinks: a
\* call, failed or not, leaves a persisted state whose variables have every
\* key the state had before it (the values may be overwritten).
C24_VariablesNeverShrink ==
    (last.op \in Advancing /\ last.pre # <<>>) =>
        /\ last.post # <<>>
        /\ VarKeys(last.pre[1].variables) \subseteq VarKeys(last.post[1].variables)

\* A call found variables in the persisted state and added keys to them.
C24_Witness ==
    /\ last.op = "ProcessConversationUpdate" /\ last.pre # <<>> /\ last.post # <<>>
    /\ VarKeys(last.pre[1].variables) # {}
    /\ VarKeys(last.pre[1].variables) # VarKeys(last.post[1].variables)

\* A call overwrote the value of a key the persisted state had.
C24_WitnessOverwritten ==
    /\ last.op = "ProcessConversationUpdate" /\ last.pre # <<>> /\ last.post # <<>>
    /\ \E k \in VarKeys(last.pre[1].variables) :
          VarGet(last.pre[1].variables, k) # VarGet(last.post[1].variables, k)

\* The completedNodeIds of a persisted state, none when there is no state.
Completed(stored) == IF stored = <<>> THEN <<>> ELSE stored[1].completedNodeIds

IsPrefix(s, t) == Len(s) <= Len(t) /\ SubSeq(t, 1, Len(s)) = s

\* C25: completedNodeIds is append-only across the calls made one after
\* another for an execution: what was persisted before a call is a prefix of
\* what is persisted after it, and a call that succeeds appends each node it
\* executed, once per execution of the node, also when the node was executed
\* before (a cycle).
C25_CompletedAppendOnly ==
    last.op \in Advancing =>
        /\ IsPrefix(Completed(last.pre), Completed(last.post))
        /\ last.err.kind = "nil" => Completed(last.post) = Completed(last.pre) \o last.executed

\* A call executed, through a cycle, a node that was completed before.
C25_Witness ==
    /\ last.op = "ProcessConversationUpdate" /\ last.err.kind = "nil"
    /\ \E i \in 1..Len(Completed(last.pre)), j \in 1..Len(last.executed) :
          Completed(last.pre)[i] = last.executed[j]

\* A call appended two nodes.
C25_WitnessTwo ==
    /\ last.op = "ProcessConversationUpdate" /\ last.err.kind = "nil"
    /\ Len(last.executed) = 2 /\ Len(Completed(last.pre)) > 0

(***************************************************************************)
(* C26, C27: ProcessVAPIUpdate                                             *)
(***************************************************************************)
PVU == "ProcessVAPIUpdate"

\* The last turn of the batch is the user's.
LastTurnIsUsers(messages) == Len(messages) > 0 /\ messages[Len(messages)].role = "user"

\* ProcessVAPIUpdate returned last: last is its ProcessConversationUpdate call.
Handled == vapi.op = PVU /\ last.op = "ProcessConversationUpdate" /\ last.key = vapi.key

\* C26: ProcessVAPIUpdate first advances the execution with
\* ProcessConversationUpdate and then decides about the outward message: it
\* asks for the message exactly when that call succeeded and the batch is not
\* empty and ends with a user turn, and it posts a message exactly when,
\* moreover, a message was computed and is not empty, and then it posts that
\* message.  With an empty batch or a last turn that is not the user's no
\* message is computed or posted, and the transition is persisted all the
\* same.
C26_EmitsOnlyForUserTurn ==
    Handled =>
        /\ vapi.asked <=> (last.err.kind = "nil" /\ LastTurnIsUsers(vapi.messages))
        /\ vapi.message # <<>> => vapi.asked
        /\ vapi.posted # <<>> <=> (vapi.message # <<>> /\ vapi.message[1] # <<>>)
        /\ vapi.posted # <<>> =>
              /\ Len(vapi.posted) = 1
              /\ vapi.posted[1].message.content = vapi.message[1]
              /\ vapi.posted[1].message.role = "system"
        /\ (last.err.kind = "nil" /\ ~LastTurnIsUsers(vapi.messages)) =>
              /\ vapi.err.kind = "nil"
              /\ states[vapi.key] = last.ret
              /\ Completed(states[vapi.key]) = Completed(last.pre) \o last.executed

\* A message was posted after a user turn.
C26_Witness ==
    Handled /\ vapi.posted # <<>> /\ vapi.err.kind = "nil" /\ last.executed # <<>>

\* The batch ended with another turn: the execution advanced, nothing was posted.
C26_WitnessNotUser ==
    /\ Handled /\ vapi.messages = <<UserTurn, AssistantTurn>>
    /\ last.err.kind = "nil" /\ last.executed # <<>> /\ vapi.posted = <<>>

\* The batch was empty: the execution advanced, nothing was posted.
C26_WitnessEmptyBatch ==
    /\ Handled /\ vapi.messages = <<>>
    /\ last.err.kind = "nil" /\ last.executed # <<>> /\ vapi.posted = <<>>

\* The computed message was empty: nothing was posted.
C26_WitnessEmptyMessage ==
    Handled /\ vapi.asked /\ vapi.message = <<<<>>>> /\ vapi.posted = <<>>

\* C27: delivery is fire-and-forget for the engine: when, after
\* ProcessConversationUpdate succeeded, GetCurrentNodeMessage or
\* sendVAPIMessage fails and ProcessVAPIUpdate returns the error, the
\* persisted state is still the advanced state ProcessConversationUpdate
\* returned, with the nodes it executed recorded: nothing is rolled back.
C27_DeliveryFailureKeepsState ==
    (Handled /\ last.err.kind = "nil" /\ vapi.err.kind # "nil") =>
        /\ states[vapi.key] = last.ret
        /\ Completed(states[vapi.key]) = Completed(last.pre) \o last.executed

\* The execution advanced and the post of the message failed.
C27_Witness ==
    /\ Handled /\ last.err.kind = "nil" /\ last.executed # <<>>
    /\ vapi.err.kind = "failed to send request" /\ vapi.posted # <<>>

\* The execution advanced and the message could not be computed: the next
\* node is not in the workflow.
C27_WitnessNoMessage ==
    /\ Handled /\ last.err.kind = "nil" /\ last.executed # <<>>
    /\ vapi.err.kind = "ErrNodeNotFound" /\ vapi.posted = <<>>

(***************************************************************************)
(* C28: ToMap and FromMap                                                  *)
(***************************************************************************)
\* C28: for every Say or Gather node, executed or not, loading a fresh node
\* with FromMap(n.ToMap()) returns no error and yields a node equal to n
\* field for field: id, type, nextNodeId, maxAttempts, llmPrompt,
\* fallbackNodeId, followUpPrompt, the schema or the variables,
\* extractedData, message, messageType and the timestamps.
C28_NodeMapRoundTrip ==
    run.loaded # <<>> =>
        /\ run.loaded[1].err.kind = "nil"
        /\ run.loaded[1].node = run.loaded[1].object

(***************************************************************************)
(* C29: completion under concurrent calls                                  *)
(***************************************************************************)
\* C29: COMPLETE is terminal in storage under every interleaving: once a
\* state with isComplete is persisted for an execution, no later write, by a
\* concurrent call that read the state before it was complete, puts a state
\* that is not complete or that has fewer completedNodeIds in its place.
C29_CompleteIsTerminal ==
    [][\A k \in Triples :
          (states[k] # <<>> /\ states[k][1].isComplete) =>
              /\ states'[k] # <<>>
              /\ states'[k][1].isComplete
              /\ IsPrefix(Completed(states[k]), Completed(states'[k]))]_vars

(***************************************************************************)
(* C30: two executions of one workflow                                     *)
(***************************************************************************)
\* Where an execution stands: the nodes it completed, its current node and
\* whether it is complete.
Progress(stored) ==
    [completedNodeIds |-> stored[1].completedNodeIds, currentNodeId |-> stored[1].currentNodeId,
     isComplete |-> stored[1].isComplete]

\* The variables a state holds, the last message of a Say node left aside
\* (a generated message depends on the order in which the map is visited).
Gathered(stored) == {p \in VarsOf(stored[1].variables) : p[1] # "lastSayMessage"}

\* C30: the executions of a workflow are independent: the state one
\* execution reaches does not depend on whether another execution of the
\* same workflow executed nodes.  Two executions that made the same progress
\* hold the same variables, and a Gather node the call executed has filled
\* state.variables with its required fields, for the second execution as for
\* the first.
C30_ExecutionsIndependent ==
    /\ \A k1, k2 \in DOMAIN states :
          (states[k1] # <<>> /\ states[k2] # <<>> /\ Progress(states[k1]) = Progress(states[k2])) =>
              /\ Gathered(states[k1]) = Gathered(states[k2])
              /\ VarKeys(states[k1][1].variables) = VarKeys(states[k2][1].variables)
    /\ (last.op = "ProcessConversationUpdate" /\ last.err.kind = "nil") =>
          \A i \in 1..Len(last.executed) :
              LET n == Stored[1].nodes[last.executed[i]]
              IN (n.type = NodeTypeGather /\ n.schema.type = "object") =>
                    n.schema.required \subseteq VarKeys(last.post[1].variables)

\* ---------------------------------------------------------------------
\* Graph properties of the persisted state
\* ---------------------------------------------------------------------

\* The persisted states of the executions that were started and have not
\* completed, for a workflow CreateWorkflow accepted.
InProgress ==
    {states[k][1] : k \in {t \in Triples : /\ Stored # <<>>
                                           /\ states[t] # <<>>
                                           /\ states[t][1].currentNodeId # ""
                                           /\ ~states[t][1].isComplete}}

\* C31: every persisted state that is started and not complete has a
\* currentNodeId that is a key of the stored workflow's nodes.
C31_CurrentNodeResolves ==
    \A st \in InProgress : st.currentNodeId \in DOMAIN Nodes

\* The persisted states of a workflow CreateWorkflow accepted.
Persisted == {states[k][1] : k \in {t \in Triples : Stored # <<>> /\ states[t] # <<>>}}

\* The last node an execution completed.
LastCompleted(st) == st.completedNodeIds[Len(st.completedNodeIds)]

\* C32: completedNodeIds is a path of the workflow graph from the start
\* node: it begins at startNodeId, each entry is followed by its node's
\* nextNodeId, a state that is not complete stands on the nextNodeId of the
\* last entry, and a complete state stands on its last entry, a node with
\* an empty nextNodeId.
C32_CompletedIsPath ==
    \A st \in Persisted :
        LET done == st.completedNodeIds IN
        /\ \A i \in DOMAIN done : done[i] \in DOMAIN Nodes
        /\ done # <<>> => done[1] = Stored[1].startNodeId
        /\ \A i \in 1..(Len(done) - 1) : Nodes[done[i]].nextNodeId = done[i + 1]
        /\ (done # <<>> /\ ~st.isComplete) =>
               st.currentNodeId = Nodes[LastCompleted(st)].nextNodeId
        /\ st.isComplete =>
               /\ done # <<>>
               /\ Nodes[LastCompleted(st)].nextNodeId = ""
               /\ st.currentNodeId = LastCompleted(st)

C32_Witness ==
    \E st \in Persisted :
        /\ st.completedNodeIds = <<"A", "B">>
        /\ ~st.isComplete /\ st.currentNodeId = "C"

C32_WitnessComplete ==
    \E st \in Persisted :
        /\ Len(st.completedNodeIds) = 2 /\ st.isComplete
        /\ st.currentNodeId = LastCompleted(st)

C32_WitnessLoop ==
    \E st \in Persisted :
        /\ st.completedNodeIds = <<"A", "A">> /\ ~st.isComplete

\* The nodes from the start node along nextNodeId, when they form a finite
\* chain without a cycle and with every target present; <<>> otherwise.
RECURSIVE ChainFrom(_, _)
ChainFrom(id, visited) ==
    IF id = "" THEN visited
    ELSE IF id \notin DOMAIN Nodes \/ \E i \in DOMAIN visited : visited[i] = id THEN <<>>
    ELSE ChainFrom(Nodes[id].nextNodeId, Append(visited, id))

Chain == IF Stored = <<>> THEN <<>> ELSE ChainFrom(Stored[1].startNodeId, <<>>)

\* C33: on a workflow whose nodes form a chain from the start node, each
\* successful ProcessConversationUpdate on a state that is not complete
\* makes completedNodeIds strictly longer; completedNodeIds stays a prefix
\* of the chain, the state that is not complete stands on the chain's next
\* node, and the state is complete exactly when the whole chain is
\* completed: at most as many successful calls as the chain has nodes.
C33_ProgressToCompletion ==
    Chain # <<>> =>
        /\ \A st \in Persisted :
              /\ IsPrefix(st.completedNodeIds, Chain)
              /\ st.isComplete <=> st.completedNodeIds = Chain
              /\ ~st.isComplete =>
                    st.currentNodeId = Chain[Len(st.completedNodeIds) + 1]
        /\ (last.op = PCU /\ last.err = NoError /\ ~LoadedBy(last).isComplete) =>
              /\ Len(last.ret[1].completedNodeIds) > Len(LoadedBy(last).completedNodeIds)
              /\ states[last.key] = last.ret

\* Two successful calls took an execution through a chain of two nodes.
C33_Witness ==
    /\ Chain = <<"A", "B">>
    /\ last.op = PCU /\ last.err = NoError
    /\ LoadedBy(last).completedNodeIds = <<"A">> /\ ~LoadedBy(last).isComplete
    /\ states[last.key] # <<>> /\ states[last.key][1].isComplete
    /\ states[last.key][1].completedNodeIds = Chain

\* One call took an execution two nodes along a chain of three.
C33_WitnessThree ==
    /\ Len(Chain) = 3
    /\ last.op = PCU /\ last.err = NoError
    /\ states[last.key] # <<>> /\ ~states[last.key][1].isComplete
    /\ Len(states[last.key][1].completedNodeIds) = 2

\* ---------------------------------------------------------------------
\* An execution that was never started
\* ---------------------------------------------------------------------

\* C34: ProcessConversationUpdate on a triple with no persisted state does
\* not start the workflow: it executes no node, returns ErrNodeNotFound
\* with an empty node id (or the error of a failed read) and persists
\* nothing; only StartWorkflow gives a triple its first persisted state.
C34_NoImplicitStart ==
    [][/\ (last'.op = PCU /\ last'.pre = <<>> /\ Stored # <<>>) =>
             /\ last'.executed = <<>>
             /\ last'.saves = 0
             /\ last'.ret = <<>>
             /\ last'.err \in {ErrNodeNotFound(""), ErrStorage}
             /\ states'[last'.key] = <<>>
       /\ \A k \in Triples :
             (states[k] = <<>> /\ states'[k] # <<>>) =>
                 /\ last'.op = "StartWorkflow" /\ last'.key = k
                 /\ last'.err = NoError]_vars

C34_Witness ==
    /\ last.op = PCU /\ last.pre = <<>> /\ Stored # <<>>
    /\ last.err = ErrNodeNotFound("") /\ last.executed = <<>>
    /\ states[last.key] = <<>>

C34_WitnessStarted ==
    /\ last.op = "StartWorkflow" /\ last.pre = <<>> /\ states[last.key] # <<>>

\* ---------------------------------------------------------------------
\* What a concurrent reader sees of a call
\* ---------------------------------------------------------------------

\* Process p's call executed a node automatically and has yet to save it.
BetweenSaves(p) == procs[p].pc = "save2"

\* A StartWorkflow for the triple of p's call returned a state.
ObservedBy(p) ==
    /\ last.op = "StartWorkflow" /\ last.err = NoError
    /\ last.key = procs[p].key /\ last.ret # <<>>

\* C35: a ProcessConversationUpdate call changes the persisted state once,
\* from the state before the call to the state it returns: a StartWorkflow
\* for the same triple that returns while the call is running is never
\* handed a state whose currentNodeId is the Say node the call has
\* executed automatically.
C35_NoIntermediateState ==
    \A p \in Procs :
        (BetweenSaves(p) /\ ObservedBy(p)) =>
            last.ret[1].currentNodeId # procs[p].unsaved[1]

\* ---------------------------------------------------------------------
\* The messages of Say nodes on the outward channel
\* ---------------------------------------------------------------------

\* The Say node the last call executed automatically.
AutoExecuted == Nodes[last.executed[2]]

\* The messages that count as the node's own: the one GetCurrentNodeMessage
\* computes for it and the one its Execute stored in lastSayMessage.
MessagesOf(n, st) == {NodeMessage(n, st), VarGet(st.variables, "lastSayMessage")}

\* C36: no Say message is skipped: the message ProcessVAPIUpdate computes
\* after a user turn whose transition executed a Say node automatically is
\* that node's message (here: of a node that has one), not the prompt of
\* its successor nor "Workflow complete".
C36_SayMessageNotSkipped ==
    (/\ Handled /\ vapi.asked /\ vapi.err = NoError
     /\ last.err = NoError /\ Len(last.executed) = 2
     /\ AutoExecuted.message # <<>>) =>
        /\ vapi.message # <<>>
        /\ vapi.message[1] \in MessagesOf(AutoExecuted, last.ret[1])

\* The node a GetCurrentNodeMessage call found the execution standing on.
StandsOn(call) == Nodes[LoadedBy(call).currentNodeId]

\* The call computed the message of a Say node for an execution in progress.
AtSayNode(call) ==
    /\ call.op = GCNM /\ call.err = NoError /\ Stored # <<>>
    /\ ~LoadedBy(call).isComplete
    /\ LoadedBy(call).currentNodeId \in DOMAIN Nodes
    /\ StandsOn(call).type = NodeTypeSay

\* C37: for a state whose current node is a Say node, exact or generated,
\* the message GetCurrentNodeMessage returns is the message the node's
\* Execute resolves for that state, whatever state.variables holds.
C37_MessageAsExecuted ==
    (AtSayNode(last) /\ StandsOn(last).messageType \in {"exact", "generated"}) =>
        \A order \in Orders(StandsOn(last), LoadedBy(last)) :
            last.msg = SayMessage(StandsOn(last), LoadedBy(last), order)

====
